---- MODULE Spec2Model ----
(***************************************************************************)
(* SeeMS converter and editor overlay: a model of the content-schema       *)
(* inference and codegen pipeline (detector.ts, manifest.ts,               *)
(* vue-transformer.ts, transformer.ts, content-extractor.ts, parser.ts,    *)
(* converter.ts) and of the editor overlay's manifest store                *)
(* (manifest-loader.ts).                                                   *)
(*                                                                         *)
(* Strings of the program are sequences of one-character strings, so that  *)
(* startsWith / endsWith / includes / replace / split act on them as they  *)
(* do in the code.                                                         *)
(***************************************************************************)
EXTENDS Integers, Sequences, FiniteSets, TLC

(***************************************************************************)
(* String primitives (JavaScript String.prototype)                         *)
(***************************************************************************)
StartsWith(s, p) ==
    /\ Len(p) <= Len(s)
    /\ SubSeq(s, 1, Len(p)) = p

EndsWith(s, p) ==
    /\ Len(p) <= Len(s)
    /\ SubSeq(s, Len(s) - Len(p) + 1, Len(s)) = p

MatchAt(s, p, i) ==
    /\ i >= 1
    /\ i + Len(p) - 1 <= Len(s)
    /\ SubSeq(s, i, i + Len(p) - 1) = p

Includes(s, p) == \E i \in 1..(Len(s) + 1) : MatchAt(s, p, i)

\* first index at which p occurs in s, 0 when it does not occur
IndexOf(s, p) ==
    IF Includes(s, p)
    THEN CHOOSE i \in 1..(Len(s) + 1) :
            /\ MatchAt(s, p, i)
            /\ \A j \in 1..(i - 1) : ~MatchAt(s, p, j)
    ELSE 0

\* s.replace(p, r) with a string pattern: the first occurrence only
ReplaceFirst(s, p, r) ==
    LET i == IndexOf(s, p)
    IN  IF i = 0 THEN s
        ELSE SubSeq(s, 1, i - 1) \o r \o SubSeq(s, i + Len(p), Len(s))

\* s.replace(/p/g, r) for a literal, non-empty p: every occurrence, left to right
RECURSIVE ReplaceAll(_, _, _)
ReplaceAll(s, p, r) ==
    LET i == IndexOf(s, p)
    IN  IF i = 0 \/ Len(p) = 0 THEN s
        ELSE SubSeq(s, 1, i - 1) \o r
                \o ReplaceAll(SubSeq(s, i + Len(p), Len(s)), p, r)

\* s.split(c) for a one-character separator c
RECURSIVE Split(_, _)
Split(s, c) ==
    LET i == IndexOf(s, <<c>>)
    IN  IF i = 0 THEN <<s>>
        ELSE <<SubSeq(s, 1, i - 1)>> \o Split(SubSeq(s, i + 1, Len(s)), c)

\* parts.join(c)
RECURSIVE Join(_, _)
Join(parts, c) ==
    IF Len(parts) = 0 THEN <<>>
    ELSE IF Len(parts) = 1 THEN parts[1]
    ELSE parts[1] \o <<c>> \o Join(Tail(parts), c)

RECURSIVE Flatten(_)
Flatten(seqs) == IF Len(seqs) = 0 THEN <<>> ELSE seqs[1] \o Flatten(Tail(seqs))

\* a set of naturals as the ascending sequence of its members (document order)
RECURSIVE SortedSeq(_)
SortedSeq(S) ==
    IF S = {} THEN <<>>
    ELSE LET m == CHOOSE x \in S : \A y \in S : x <= y
         IN  <<m>> \o SortedSeq(S \ {m})

\* Number.prototype.toString for the naturals the model meets
RECURSIVE NumStr(_)
NumStr(n) ==
    LET digit == <<"0", "1", "2", "3", "4", "5", "6", "7", "8", "9">>
    IN  IF n < 10 THEN <<digit[n + 1]>>
        ELSE NumStr(n \div 10) \o <<digit[(n % 10) + 1]>>

(***************************************************************************)
(* Ordered maps: a JavaScript object with string keys, as the sequence of  *)
(* its <<key, value>> entries in insertion order.                          *)
(***************************************************************************)
Keys(m) == [i \in 1..Len(m) |-> m[i][1]]
KeySet(m) == {m[i][1] : i \in 1..Len(m)}
HasKey(m, k) == k \in KeySet(m)
Get(m, k) == m[CHOOSE i \in 1..Len(m) : m[i][1] = k][2]
\* m[k] = v: an existing key keeps its position, a new key is appended
Put(m, k, v) ==
    IF HasKey(m, k)
    THEN [i \in 1..Len(m) |-> IF m[i][1] = k THEN <<k, v>> ELSE m[i]]
    ELSE Append(m, <<k, v>>)

\* element names, as the HTML parser reports them (lower case)
Tag ==
    [ div |-> <<"d", "i", "v">>,
      h1 |-> <<"h", "1">>,
      h2 |-> <<"h", "2">>,
      h3 |-> <<"h", "3">>,
      h4 |-> <<"h", "4">>,
      h5 |-> <<"h", "5">>,
      h6 |-> <<"h", "6">>,
      p |-> <<"p">>,
      img |-> <<"i", "m", "g">>,
      a |-> <<"a">>,
      button |-> <<"b", "u", "t", "t", "o", "n">>,
      span |-> <<"s", "p", "a", "n">>,
      strong |-> <<"s", "t", "r", "o", "n", "g">>,
      em |-> <<"e", "m">>,
      b |-> <<"b">>,
      i |-> <<"i">>,
      style |-> <<"s", "t", "y", "l", "e">>,
      script |-> <<"s", "c", "r", "i", "p", "t">>,
      nuxt_link |-> <<"n", "u", "x", "t", "-", "l", "i", "n", "k">>,
      nuxtlink |-> <<"n", "u", "x", "t", "l", "i", "n", "k">> ]

\* string literals of detector.ts
DetLit ==
    [ c_dash |-> <<"c", "-">>,
      w_dash |-> <<"w", "-">>,
      cc_dash |-> <<"c", "c", "-">>,
      card |-> <<"c", "a", "r", "d">>,
      item |-> <<"i", "t", "e", "m">>,
      post |-> <<"p", "o", "s", "t">>,
      feature |-> <<"f", "e", "a", "t", "u", "r", "e">>,
      image |-> <<"i", "m", "a", "g", "e">>,
      inner |-> <<"i", "n", "n", "e", "r">>,
      tag |-> <<"t", "a", "g">>,
      container |-> <<"c", "o", "n", "t", "a", "i", "n", "e", "r">>,
      heading_u |-> <<"h", "e", "a", "d", "i", "n", "g", "_">>,
      header |-> <<"h", "e", "a", "d", "e", "r">>,
      hero |-> <<"h", "e", "r", "o">>,
      cta |-> <<"c", "t", "a">>,
      c_button |-> <<"c", "_", "b", "u", "t", "t", "o", "n">>,
      c_icon_button |-> <<"c", "_", "i", "c", "o", "n", "_", "b", "u", "t", "t", "o", "n">>,
      u_image |-> <<"_", "i", "m", "a", "g", "e">>,
      u_button_text |-> <<"_", "b", "u", "t", "t", "o", "n", "_", "t", "e", "x", "t">>,
      button_text |-> <<"b", "u", "t", "t", "o", "n", "_", "t", "e", "x", "t">>,
      u_heading |-> <<"_", "h", "e", "a", "d", "i", "n", "g">>,
      title |-> <<"t", "i", "t", "l", "e">>,
      description |-> <<"d", "e", "s", "c", "r", "i", "p", "t", "i", "o", "n">>,
      link |-> <<"l", "i", "n", "k">>,
      s |-> <<"s">>,
      dot_c_button |-> <<".", "c", "_", "b", "u", "t", "t", "o", "n">> ]

\* string literals of parser.ts and converter.ts
ParLit ==
    [ dot_html |-> <<".", "h", "t", "m", "l">>,
      dot_vue |-> <<".", "v", "u", "e">>,
      index |-> <<"i", "n", "d", "e", "x">>,
      slash_index |-> <<"/", "i", "n", "d", "e", "x">>,
      slash |-> <<"/">>,
      dotdot |-> <<".", ".">>,
      dotdot_slash |-> <<".", ".", "/">>,
      slash_dotdot |-> <<"/", ".", ".">>,
      dotdot_index |-> <<".", ".", "/", "i", "n", "d", "e", "x">>,
      dot_slash |-> <<".", "/">>,
      dot |-> <<".">>,
      http |-> <<"h", "t", "t", "p">>,
      https |-> <<"h", "t", "t", "p", "s">>,
      http_url |-> <<"h", "t", "t", "p", ":", "/", "/">>,
      https_url |-> <<"h", "t", "t", "p", "s", ":", "/", "/">>,
      mailto |-> <<"m", "a", "i", "l", "t", "o", ":">>,
      tel |-> <<"t", "e", "l", ":">>,
      hash |-> <<"#">>,
      assets |-> <<"/", "a", "s", "s", "e", "t", "s", "/">>,
      slash_dotdot_slash |-> <<"/", ".", ".", "/">>,
      global_embed |-> <<"g", "l", "o", "b", "a", "l", "-", "e", "m", "b", "e", "d">>,
      dash |-> <<"-">> ]

\* string literals of content-extractor.ts
ExtLit ==
    [ image |-> <<"i", "m", "a", "g", "e">>,
      link |-> <<"l", "i", "n", "k">>,
      url |-> <<"u", "r", "l">>,
      bg |-> <<"b", "g">>,
      images_slash |-> <<"i", "m", "a", "g", "e", "s", "/">>,
      slash_images_slash |-> <<"/", "i", "m", "a", "g", "e", "s", "/">>,
      slash |-> <<"/">> ]

\* string literals of transformer.ts and vue-transformer.ts
TrLit ==
    [ image |-> <<"i", "m", "a", "g", "e">>,
      description |-> <<"d", "e", "s", "c", "r", "i", "p", "t", "i", "o", "n">>,
      content |-> <<"c", "o", "n", "t", "e", "n", "t">>,
      link |-> <<"l", "i", "n", "k">>,
      url |-> <<"u", "r", "l">>,
      title |-> <<"t", "i", "t", "l", "e">>,
      tag |-> <<"t", "a", "g">>,
      item |-> <<"i", "t", "e", "m">>,
      underscore |-> <<"_">>,
      dash |-> <<"-">>,
      s |-> <<"s">> ]

(***************************************************************************)
(* Parsed trees (cheerio).  A tree is the sequence of its elements in      *)
(* document order; parent = 0 is the body.  cls is the class attribute     *)
(* split at spaces (<<>> when the attribute is absent); text is the        *)
(* element's own text, which precedes its child elements; src, href and    *)
(* to are <<>> when absent.  bind holds the attributes the template        *)
(* rewriter adds.  A removed element stays in the sequence with            *)
(* alive = FALSE, as do all its descendants.                               *)
(***************************************************************************)
NoBind == [vfor |-> <<>>, key |-> <<>>, bsrc |-> <<>>, vhtml |-> <<>>,
           bto |-> <<>>, interp |-> <<>>]

El(parent, tag, cls, text, src, href) ==
    [parent |-> parent, tag |-> tag, cls |-> cls, text |-> text, src |-> src,
     href |-> href, to |-> <<>>, srcset |-> FALSE, sizes |-> FALSE,
     alive |-> TRUE, bind |-> NoBind]

Nodes(t) == {i \in 1..Len(t) : t[i].alive}

RECURSIVE IsAncestor(_, _, _)
\* a is a proper ancestor of i
IsAncestor(t, a, i) ==
    /\ t[i].parent # 0
    /\ (t[i].parent = a \/ IsAncestor(t, a, t[i].parent))

Descendants(t, a) == {i \in Nodes(t) : IsAncestor(t, a, i)}
Children(t, a) == {i \in Nodes(t) : t[i].parent = a}

\* the chain parent, grandparent, ... of i, nearest first
RECURSIVE AncestorSeq(_, _)
AncestorSeq(t, i) ==
    IF t[i].parent = 0 THEN <<>>
    ELSE <<t[i].parent>> \o AncestorSeq(t, t[i].parent)

\* DOM class list: the non-empty tokens of the class attribute
ClassList(n) == {n.cls[k] : k \in {j \in 1..Len(n.cls) : Len(n.cls[j]) > 0}}

\* the selectors the program builds: ".token" or an element name
MatchesSelector(n, sel) ==
    IF Len(sel) > 0 /\ sel[1] = "."
    THEN SubSeq(sel, 2, Len(sel)) \in ClassList(n)
    ELSE n.tag = sel

\* $(sel): the matching elements in document order
Query(t, sel) == SortedSeq({i \in Nodes(t) : MatchesSelector(t[i], sel)})
\* $(a).find(sel)
Find(t, a, sel) == SortedSeq({i \in Descendants(t, a) : MatchesSelector(t[i], sel)})
\* [class*="pat"]: the attribute value contains pat (pat holds no space)
ClassAttrContains(n, pat) == \E k \in 1..Len(n.cls) : Includes(n.cls[k], pat)

\* $(i).text(): own and descendant text in document order
TextOf(t, i) ==
    LET ids == SortedSeq({i} \cup Descendants(t, i))
    IN  Flatten([k \in 1..Len(ids) |-> t[ids[k]].text])

\* String.prototype.trim, for the space character
RECURSIVE TrimStart(_)
TrimStart(s) == IF Len(s) > 0 /\ s[1] = " " THEN TrimStart(Tail(s)) ELSE s
RECURSIVE TrimEnd(_)
TrimEnd(s) ==
    IF Len(s) > 0 /\ s[Len(s)] = " " THEN TrimEnd(SubSeq(s, 1, Len(s) - 1)) ELSE s
Trim(s) == TrimEnd(TrimStart(s))
\* $(i).text().trim()
TrimmedText(t, i) == Trim(TextOf(t, i))

\* .remove(): the elements of S leave the tree with their subtrees
Remove(t, S) ==
    [i \in 1..Len(t) |->
        IF i \in S \/ \E a \in S : IsAncestor(t, a, i)
        THEN [t[i] EXCEPT !.alive = FALSE] ELSE t[i]]
\* .empty(): the children of a leave the tree, and its own text goes
Empty(t, a) ==
    [i \in 1..Len(t) |->
        IF IsAncestor(t, a, i) THEN [t[i] EXCEPT !.alive = FALSE]
        ELSE IF i = a THEN [t[i] EXCEPT !.text = <<>>, !.bind.interp = <<>>]
        ELSE t[i]]

(***************************************************************************)
(* parser.ts                                                               *)
(***************************************************************************)
\* path.posix.normalize, as parser.ts:45 calls it: "." and empty segments
\* go, ".." removes the segment before it (or stays, above a relative root)
RECURSIVE NormalizeSegments(_, _, _)
NormalizeSegments(segs, stack, allowAboveRoot) ==
    IF Len(segs) = 0 THEN stack
    ELSE LET seg == segs[1]
             rest == Tail(segs)
         IN  IF seg = <<>> \/ seg = ParLit.dot
             THEN NormalizeSegments(rest, stack, allowAboveRoot)
             ELSE IF seg = ParLit.dotdot
             THEN IF Len(stack) > 0 /\ stack[Len(stack)] # ParLit.dotdot
                  THEN NormalizeSegments(rest, SubSeq(stack, 1, Len(stack) - 1),
                                         allowAboveRoot)
                  ELSE IF allowAboveRoot
                  THEN NormalizeSegments(rest, Append(stack, seg), allowAboveRoot)
                  ELSE NormalizeSegments(rest, stack, allowAboveRoot)
             ELSE NormalizeSegments(rest, Append(stack, seg), allowAboveRoot)

PosixNormalize(path) ==
    IF Len(path) = 0 THEN ParLit.dot
    ELSE LET isAbsolute == path[1] = "/"
             trailingSeparator == path[Len(path)] = "/"
             body == Join(NormalizeSegments(Split(path, "/"), <<>>, ~isAbsolute), "/")
         IN  IF Len(body) = 0
             THEN (IF isAbsolute THEN ParLit.slash
                   ELSE IF trailingSeparator THEN ParLit.dot_slash ELSE ParLit.dot)
             ELSE (IF isAbsolute THEN ParLit.slash ELSE <<>>) \o body
                    \o (IF trailingSeparator THEN ParLit.slash ELSE <<>>)

normalizeRoute(href) ==
    LET route == ReplaceFirst(href, ParLit.dot_html, <<>>)
    IN  IF route = ParLit.index \/ route = ParLit.slash_index
           \/ EndsWith(route, ParLit.slash_index)
        THEN ParLit.slash
        ELSE IF route \in {ParLit.dotdot, ParLit.dotdot_slash, ParLit.slash_dotdot,
                           ParLit.dotdot_index}
        THEN ParLit.slash
        ELSE LET stripped == ReplaceAll(ReplaceAll(route, ParLit.dotdot_slash, <<>>),
                                        ParLit.dot_slash, <<>>)
                 normalized == PosixNormalize(stripped)
             IN  IF ~StartsWith(normalized, ParLit.slash)
                 THEN ParLit.slash \o normalized
                 ELSE normalized

\* src.replace(/^(\.\.\/)+/, '')
RECURSIVE StripLeadingParents(_)
StripLeadingParents(s) ==
    IF StartsWith(s, ParLit.dotdot_slash)
    THEN StripLeadingParents(SubSeq(s, 4, Len(s)))
    ELSE s

normalizeAssetPath(src) ==
    IF Len(src) = 0 \/ StartsWith(src, ParLit.http) \/ StartsWith(src, ParLit.https)
    THEN src
    ELSE LET s1 == StripLeadingParents(src)
             normalized == IF StartsWith(s1, ParLit.dot_slash)
                           THEN SubSeq(s1, 3, Len(s1)) ELSE s1
         IN  IF StartsWith(normalized, ParLit.assets)
             THEN ReplaceAll(normalized, ParLit.slash_dotdot_slash, ParLit.slash)
             ELSE ParLit.assets \o normalized

\* parseHTML(...).htmlContent: the body without .global-embed elements,
\* top-level style elements and scripts
parseHTML(t) ==
    Remove(t, {i \in Nodes(t) :
                  \/ ParLit.global_embed \in ClassList(t[i])
                  \/ (t[i].tag = Tag.style /\ t[i].parent = 0)
                  \/ t[i].tag = Tag.script})

isExternal(href) ==
    \/ StartsWith(href, ParLit.http_url)
    \/ StartsWith(href, ParLit.https_url)
    \/ StartsWith(href, ParLit.mailto)
    \/ StartsWith(href, ParLit.tel)
    \/ StartsWith(href, ParLit.hash)

\* transformForNuxt: scripts go; an internal <a href> becomes
\* <nuxt-link to=route class=classes> with the same content; every img gets
\* a normalized src and loses srcset and sizes
transformForNuxt(t0) ==
    LET t == Remove(t0, {i \in Nodes(t0) : t0[i].tag = Tag.script})
    IN  [i \in 1..Len(t) |->
            IF ~t[i].alive THEN t[i]
            ELSE IF t[i].tag = Tag.a /\ Len(t[i].href) > 0 /\ ~isExternal(t[i].href)
            THEN [t[i] EXCEPT !.tag = Tag.nuxt_link,
                              !.to = normalizeRoute(t[i].href),
                              !.href = <<>>,
                              !.cls = IF Len(t[i].cls) = 0 THEN <<<<>>>> ELSE t[i].cls]
            ELSE IF t[i].tag = Tag.img
            THEN [t[i] EXCEPT !.src = normalizeAssetPath(t[i].src),
                              !.srcset = FALSE, !.sizes = FALSE]
            ELSE t[i]]

\* htmlToVueComponent: a page-comment script block and a <template> block
\* holding the content wrapped in one plain <div>
htmlToVueComponent(t) ==
    [strapi |-> FALSE, template |-> TRUE, wrapped |-> TRUE, tree |-> t]

(***************************************************************************)
(* detector.ts                                                             *)
(***************************************************************************)
\* the value of .attr('class'): the tokens joined by spaces
ClassAttr(cls) == Join(cls, " ")

cleanClassName(className) ==
    Join(SelectSeq(Split(className, " "),
                   LAMBDA c : /\ ~StartsWith(c, DetLit.c_dash)
                              /\ ~StartsWith(c, DetLit.w_dash)
                              /\ Len(c) > 0),
         " ")

\* null is [ok |-> FALSE]
getPrimaryClass(cls) ==
    IF Len(ClassAttr(cls)) = 0 THEN [ok |-> FALSE]
    ELSE LET classes == SelectSeq(Split(cleanClassName(ClassAttr(cls)), " "),
                                  LAMBDA c : Len(c) > 0)
         IN  IF Len(classes) = 0 THEN [ok |-> FALSE]
             ELSE [ok |-> TRUE,
                   selector |-> classes[1],
                   fieldName |-> ReplaceAll(classes[1], <<"-">>, <<"_">>)]

\* the class attribute of element i; the wrapper div and the body (0) have none
ClsOf(t, i) == IF i = 0 THEN <<>> ELSE t[i].cls

\* first element among el and its ancestors that satisfies P, 0 when none
Closest(t, el, P(_)) ==
    LET chain == <<el>> \o AncestorSeq(t, el)
        hits == {k \in 1..Len(chain) : P(chain[k])}
    IN  IF hits = {} THEN 0
        ELSE chain[CHOOSE k \in hits : \A j \in hits : k <= j]

ContextDepth == 5

getContextModifier(t, el) ==
    LET chain == AncestorSeq(t, el)
        near == SubSeq(chain, 1, IF Len(chain) < ContextDepth THEN Len(chain)
                                 ELSE ContextDepth)
        cc(i) == SelectSeq(t[i].cls, LAMBDA c : StartsWith(c, DetLit.cc_dash))
        hits == {k \in 1..Len(near) : Len(cc(near[k])) > 0}
    IN  IF hits = {} THEN [ok |-> FALSE]
        ELSE LET k == CHOOSE x \in hits : \A y \in hits : x <= y
                 ccClass == cc(near[k])[1]
             IN  [ok |-> TRUE,
                  name |-> ReplaceAll(ReplaceFirst(ccClass, DetLit.cc_dash, <<>>),
                                      <<"-">>, <<"_">>)]

decorativePatterns ==
    << <<"n", "a", "v">>, <<"l", "o", "g", "o">>, <<"i", "c", "o", "n">>,
       <<"a", "r", "r", "o", "w">>, <<"b", "u", "t", "t", "o", "n">>,
       <<"q", "u", "o", "t", "e">>,
       <<"p", "a", "g", "i", "n", "a", "t", "i", "o", "n">>,
       <<"f", "o", "o", "t", "e", "r">>, <<"l", "i", "n", "k">> >>

isDecorativeImage(t, img) ==
    LET parentClass == ClassAttr(ClsOf(t, t[img].parent))
    IN  \E k \in 1..Len(decorativePatterns) :
            \/ Includes(parentClass, decorativePatterns[k])
            \/ Includes(parentClass, decorativePatterns[k] \o <<"_">>)

\* $(el).closest('button, a, NuxtLink, .c_button, .c_icon_button').length > 0
isInsideButton(t, el) ==
    Closest(t, el, LAMBDA i :
                \/ t[i].tag \in {Tag.button, Tag.a, Tag.nuxtlink}
                \/ DetLit.c_button \in ClassList(t[i])
                \/ DetLit.c_icon_button \in ClassList(t[i])) # 0

IsHeading(n) == n.tag \in {Tag.h1, Tag.h2, Tag.h3, Tag.h4, Tag.h5, Tag.h6}

\* pass 1, lines 118-135: elements grouped by primary class, keys in the
\* order of their first element
isCollectionClass(fieldName) ==
    /\ \/ Includes(fieldName, DetLit.card)
       \/ Includes(fieldName, DetLit.item)
       \/ Includes(fieldName, DetLit.post)
       \/ Includes(fieldName, DetLit.feature)
    /\ ~Includes(fieldName, DetLit.image)
    /\ ~Includes(fieldName, DetLit.inner)

RECURSIVE GroupByClass(_, _, _)
GroupByClass(t, ids, m) ==
    IF Len(ids) = 0 THEN m
    ELSE LET el == ids[1]
             pc == getPrimaryClass(t[el].cls)
         IN  IF pc.ok /\ isCollectionClass(pc.fieldName)
             THEN GroupByClass(t, Tail(ids),
                     Put(m, pc.fieldName,
                         IF HasKey(m, pc.fieldName)
                         THEN Append(Get(m, pc.fieldName), el) ELSE <<el>>))
             ELSE GroupByClass(t, Tail(ids), m)

potentialCollections(t) ==
    GroupByClass(t, SortedSeq({i \in Nodes(t) : Len(t[i].cls) > 0}), <<>>)

MinMembers == 2

\* the groups that are processed as collections (elements.length >= 2)
promotedGroups(t) ==
    SelectSeq(potentialCollections(t), LAMBDA g : Len(g[2]) >= MinMembers)

\* the marking without lines 149-151: the members only
collectionMembersOnly(t) ==
    LET groups == promotedGroups(t)
    IN  UNION {{groups[g][2][k] : k \in 1..Len(groups[g][2])} : g \in 1..Len(groups)}

\* lines 147-152: every member of a processed group and all its descendants
collectionElements(t) ==
    LET groups == promotedGroups(t)
        members == UNION {{groups[g][2][k] : k \in 1..Len(groups[g][2])} :
                             g \in 1..Len(groups)}
    IN  UNION {{el} \cup Descendants(t, el) : el \in members}

\* first element of seq that satisfies P, 0 when none
FirstWhere(seq, P(_)) ==
    LET hits == {k \in 1..Len(seq) : P(seq[k])}
    IN  IF hits = {} THEN 0
        ELSE seq[CHOOSE k \in hits : \A j \in hits : k <= j]

SeqHead(seq) == IF Len(seq) = 0 THEN 0 ELSE seq[1]

\* lines 158-211: the field map of a collection, read off its first member
collectionFieldMap(t, first) ==
    LET sub == SortedSeq(Descendants(t, first))
        ofTag(tags) == SelectSeq(sub, LAMBDA i : t[i].tag \in tags)
        img == FirstWhere(ofTag({Tag.img}), LAMBDA i :
                  /\ ~isInsideButton(t, i)
                  /\ getPrimaryClass(ClsOf(t, t[i].parent)).ok
                  /\ Includes(getPrimaryClass(ClsOf(t, t[i].parent)).fieldName,
                              DetLit.image))
        tagEl == FirstWhere(ofTag({Tag.div}), LAMBDA i :
                  /\ getPrimaryClass(t[i].cls).ok
                  /\ Includes(getPrimaryClass(t[i].cls).fieldName, DetLit.tag)
                  /\ ~Includes(getPrimaryClass(t[i].cls).fieldName, DetLit.container))
        heading == SeqHead(SelectSeq(sub, LAMBDA i : IsHeading(t[i])))
        para == SeqHead(ofTag({Tag.p}))
        link == FirstWhere(ofTag({Tag.a, Tag.nuxtlink}), LAMBDA i :
                  /\ DetLit.c_button \notin ClassList(t[i])
                  /\ DetLit.c_icon_button \notin ClassList(t[i])
                  /\ Len(TrimmedText(t, i)) > 0)
        sel(cls) == <<".">> \o getPrimaryClass(cls).selector
        f1 == IF img # 0
              THEN <<<<DetLit.image, sel(ClsOf(t, t[img].parent))>>>> ELSE <<>>
        f2 == IF tagEl # 0 THEN <<<<DetLit.tag, sel(t[tagEl].cls)>>>> ELSE <<>>
        f3 == IF heading # 0 /\ getPrimaryClass(ClsOf(t, heading)).ok
              THEN <<<<DetLit.title, sel(t[heading].cls)>>>> ELSE <<>>
        f4 == IF para # 0 /\ getPrimaryClass(ClsOf(t, para)).ok
              THEN <<<<DetLit.description, sel(t[para].cls)>>>> ELSE <<>>
        f5 == IF link # 0
              THEN <<<<DetLit.link,
                       IF getPrimaryClass(t[link].cls).ok
                       THEN sel(t[link].cls) ELSE Tag.a>>>>
              ELSE <<>>
    IN  f1 \o f2 \o f3 \o f4 \o f5

\* lines 213-217
collectionNameOf(className) ==
    IF EndsWith(className, DetLit.s) THEN className ELSE className \o DetLit.s

\* lines 138-225: the collections of a page, in insertion order
RECURSIVE detectCollections(_, _, _)
detectCollections(t, groups, out) ==
    IF Len(groups) = 0 THEN out
    ELSE LET className == groups[1][1]
             elements == groups[1][2]
             fields == collectionFieldMap(t, elements[1])
             pc == getPrimaryClass(t[elements[1]].cls)
             selector == <<".">> \o (IF pc.ok THEN pc.selector ELSE className)
         IN  IF Len(fields) > 0
             THEN detectCollections(t, Tail(groups),
                     Put(out, collectionNameOf(className),
                         [selector |-> selector, fields |-> fields]))
             ELSE detectCollections(t, Tail(groups), out)

Field(selector, type) == [selector |-> selector, type |-> type, editable |-> TRUE]

\* [class*="header"], [class*="hero"], [class*="cta"]
IsContextContainer(n) ==
    \/ ClassAttrContains(n, DetLit.header)
    \/ ClassAttrContains(n, DetLit.hero)
    \/ ClassAttrContains(n, DetLit.cta)

\* lines 231-270: what the heading el, the index-th heading of the body,
\* registers (a sequence of zero or one registrations)
headingRegistration(t, owned, el, index) ==
    LET classInfo == getPrimaryClass(t[el].cls)
        parent == Closest(t, el, LAMBDA i : IsContextContainer(t[i]))
        parentClassInfo == getPrimaryClass(ClsOf(t, parent))
        modifier == getContextModifier(t, el)
        ownSel == <<".">> \o classInfo.selector
    IN  IF el \in owned \/ Len(TrimmedText(t, el)) = 0 THEN <<>>
        ELSE IF classInfo.ok /\ ~StartsWith(classInfo.fieldName, DetLit.heading_u)
        THEN <<[name |-> classInfo.fieldName, field |-> Field(ownSel, "plain"),
                el |-> el]>>
        ELSE IF parentClassInfo.ok
        THEN <<[name |-> IF modifier.ok
                         THEN modifier.name \o <<"_">> \o parentClassInfo.fieldName
                         ELSE parentClassInfo.fieldName,
                field |-> Field(IF classInfo.ok THEN ownSel
                                ELSE <<".">> \o parentClassInfo.selector, "plain"),
                el |-> el]>>
        ELSE IF modifier.ok
        THEN <<[name |-> modifier.name \o DetLit.u_heading,
                field |-> Field(IF classInfo.ok THEN ownSel ELSE t[el].tag, "plain"),
                el |-> el]>>
        ELSE <<[name |-> DetLit.heading_u \o NumStr(index),
                field |-> Field(IF classInfo.ok THEN ownSel ELSE t[el].tag, "plain"),
                el |-> el]>>

ParagraphMinLength == 20

\* lines 273-289
paragraphRegistration(t, owned, el) ==
    LET classInfo == getPrimaryClass(t[el].cls)
        hasFormatting ==
            \E i \in Descendants(t, el) :
                t[i].tag \in {Tag.strong, Tag.em, Tag.b, Tag.i, Tag.a, Tag.nuxtlink}
    IN  IF el \in owned THEN <<>>
        ELSE IF Len(TrimmedText(t, el)) > ParagraphMinLength /\ classInfo.ok
        THEN <<[name |-> classInfo.fieldName,
                field |-> Field(<<".">> \o classInfo.selector,
                                IF hasFormatting THEN "rich" ELSE "plain"),
                el |-> el]>>
        ELSE <<>>

\* lines 292-315
imageRegistration(t, owned, el) ==
    LET parentClassInfo == getPrimaryClass(ClsOf(t, t[el].parent))
    IN  IF el \in owned \/ isInsideButton(t, el) \/ isDecorativeImage(t, el)
        THEN <<>>
        ELSE IF parentClassInfo.ok
        THEN <<[name |-> IF Includes(parentClassInfo.fieldName, DetLit.image)
                         THEN parentClassInfo.fieldName
                         ELSE parentClassInfo.fieldName \o DetLit.u_image,
                field |-> Field(<<".">> \o parentClassInfo.selector, "image"),
                el |-> el]>>
        ELSE <<>>

ButtonMinLength == 2

\* lines 318-337; the button's label is its first text or <div> child
buttonRegistration(t, owned, el) ==
    LET divs == SortedSeq({i \in Children(t, el) : t[i].tag = Tag.div})
        text == Trim(IF Len(t[el].text) > 0 THEN t[el].text
                     ELSE IF Len(divs) > 0 THEN TextOf(t, divs[1]) ELSE <<>>)
        parent == Closest(t, el, LAMBDA i : ClassAttrContains(t[i], DetLit.cta))
        parentClassInfo == getPrimaryClass(ClsOf(t, parent))
    IN  IF el \in owned THEN <<>>
        ELSE IF Len(text) > ButtonMinLength
        THEN <<[name |-> IF parentClassInfo.ok
                         THEN parentClassInfo.fieldName \o DetLit.u_button_text
                         ELSE DetLit.button_text,
                field |-> Field(DetLit.dot_c_button, "plain"),
                el |-> el]>>
        ELSE <<>>

\* every assignment detectedFields[name] = ... of pass 2, in the order made
fieldRegistrations(t) ==
    LET owned == collectionElements(t)
        all == SortedSeq(Nodes(t))
        headings == SelectSeq(all, LAMBDA i : IsHeading(t[i]))
        paras == SelectSeq(all, LAMBDA i : t[i].tag = Tag.p)
        imgs == SelectSeq(all, LAMBDA i : t[i].tag = Tag.img)
        buttons == SelectSeq(all, LAMBDA i : DetLit.c_button \in ClassList(t[i]))
    IN  Flatten([k \in 1..Len(headings) |->
                    headingRegistration(t, owned, headings[k], k - 1)])
        \o Flatten([k \in 1..Len(paras) |-> paragraphRegistration(t, owned, paras[k])])
        \o Flatten([k \in 1..Len(imgs) |-> imageRegistration(t, owned, imgs[k])])
        \o Flatten([k \in 1..Len(buttons) |-> buttonRegistration(t, owned, buttons[k])])

RECURSIVE AssignAll(_, _)
AssignAll(regs, m) ==
    IF Len(regs) = 0 THEN m
    ELSE AssignAll(Tail(regs), Put(m, regs[1].name, regs[1].field))

detectEditableFields(t) ==
    [fields |-> AssignAll(fieldRegistrations(t), <<>>),
     collections |-> detectCollections(t, promotedGroups(t), <<>>)]

\* extractTemplateFromVue: <<>> stands for '', <<tree>> for the content of
\* the <template> block
extractTemplateFromVue(file) == IF file.template THEN <<file.tree>> ELSE <<>>

(***************************************************************************)
(* manifest.ts                                                             *)
(***************************************************************************)
routeOf(pageName) ==
    IF pageName = ParLit.index THEN ParLit.slash ELSE ParLit.slash \o pageName

\* a page entry that has its meta only when something was detected
pageEntryBare(pageName, detection) ==
    IF Len(detection.fields) + Len(detection.collections) > 0
    THEN [fields |-> detection.fields,
          collections |-> detection.collections,
          meta |-> [route |-> routeOf(pageName)]]
    ELSE [fields |-> detection.fields, collections |-> detection.collections]

pageEntry(pageName, detection) ==
    [fields |-> detection.fields,
     collections |-> detection.collections,
     meta |-> [route |-> routeOf(pageName)]]

\* generateManifest, lines 17-35: analyzed is the result of analyzeVuePages
generateManifest(analyzed) ==
    [version |-> "1.0",
     pages |-> [i \in 1..Len(analyzed) |->
                   <<analyzed[i][1], pageEntry(analyzed[i][1], analyzed[i][2])>>]]

(***************************************************************************)
(* vue-transformer.ts                                                      *)
(***************************************************************************)
Binding(scope, name) == <<scope, name>>

\* $(els).find('img').first(): 0 when there is none
FirstImgIn(t, els) ==
    SeqHead(SortedSeq({i \in Nodes(t) :
                          /\ t[i].tag = Tag.img
                          /\ \E a \in els : IsAncestor(t, a, i)}))

replaceWithBinding(t, el, fieldName, type) ==
    IF type = "image"
    THEN LET img == FirstImgIn(t, {el})
         IN  IF img # 0
             THEN [t EXCEPT ![img].bind.bsrc = Binding("content", fieldName),
                            ![img].src = <<>>]
             ELSE t
    ELSE IF type = "rich"
    THEN [Empty(t, el) EXCEPT ![el].bind.vhtml = Binding("content", fieldName)]
    ELSE [Empty(t, el) EXCEPT ![el].bind.interp = Binding("content", fieldName)]

RECURSIVE bindEach(_, _, _, _)
\* $elements.each(el => replaceWithBinding(...))
bindEach(t, els, fieldName, type) ==
    IF Len(els) = 0 THEN t
    ELSE bindEach(replaceWithBinding(t, els[1], fieldName, type),
                  Tail(els), fieldName, type)

RECURSIVE emptyEach(_, _, _)
\* $fieldEl.empty(); $fieldEl.text('{{ item.<fieldName> }}')
emptyEach(t, els, fieldName) ==
    IF Len(els) = 0 THEN t
    ELSE emptyEach([Empty(t, els[1]) EXCEPT
                       ![els[1]].bind.interp = Binding("item", fieldName)],
                   Tail(els), fieldName)

\* lines 58-76, one entry of collection.fields
bindItemField(t, first, fieldName, selector) ==
    LET fieldEls == Find(t, first, selector)
        elSet == {fieldEls[k] : k \in 1..Len(fieldEls)}
    IN  IF Len(fieldEls) = 0 THEN t
        ELSE IF fieldName = TrLit.image
        THEN LET img == FirstImgIn(t, elSet)
             IN  IF img # 0
                 THEN [t EXCEPT ![img].bind.bsrc = Binding("item", TrLit.image),
                                ![img].src = <<>>]
                 ELSE t
        ELSE IF fieldName = TrLit.link
        THEN [i \in 1..Len(t) |->
                 IF i \in elSet
                 THEN [t[i] EXCEPT !.bind.bto = Binding("item", TrLit.link),
                                   !.to = <<>>, !.href = <<>>]
                 ELSE t[i]]
        ELSE emptyEach(t, fieldEls, fieldName)

RECURSIVE bindItemFields(_, _, _)
bindItemFields(t, first, fields) ==
    IF Len(fields) = 0 THEN t
    ELSE bindItemFields(bindItemField(t, first, fields[1][1], fields[1][2]),
                        first, Tail(fields))

\* the collection rewrite without line 79: every instance stays
transformCollectionKeepAll(t, collectionName, collection) ==
    LET items == Query(t, collection.selector)
    IN  IF Len(items) = 0 THEN t
        ELSE LET first == items[1]
                 marked == [t EXCEPT
                              ![first].bind.vfor = Binding("content", collectionName),
                              ![first].bind.key = <<"index">>]
             IN  bindItemFields(marked, first, collection.fields)

transformCollection(t, collectionName, collection) ==
    LET items == Query(t, collection.selector)
    IN  IF Len(items) = 0 THEN t
        ELSE LET first == items[1]
                 marked == [t EXCEPT
                              ![first].bind.vfor = Binding("content", collectionName),
                              ![first].bind.key = <<"index">>]
                 bound == bindItemFields(marked, first, collection.fields)
             IN  Remove(bound, {items[k] : k \in 2..Len(items)})

RECURSIVE transformCollections(_, _)
transformCollections(t, collections) ==
    IF Len(collections) = 0 THEN t
    ELSE transformCollections(
            transformCollection(t, collections[1][1], collections[1][2]),
            Tail(collections))

RECURSIVE transformFields(_, _)
transformFields(t, fields) ==
    IF Len(fields) = 0 THEN t
    ELSE transformFields(
            bindEach(t, Query(t, fields[1][2].selector), fields[1][1],
                     fields[1][2].type),
            Tail(fields))

\* lines 144-149: the template loses a leading <div> and a trailing </div>.
\* On a wrapped template these are the wrapper's; otherwise they are the
\* tags of the first top-level element, whose children move up.
stripWrapperDiv(file) ==
    LET t == file.tree
        top == SortedSeq(Children(t, 0))
        first == top[1]
        last == top[Len(top)]
        plainDiv(n) == /\ n.tag = Tag.div /\ n.cls = <<>> /\ n.text = <<>>
                       /\ n.bind = NoBind
    IN  IF file.wrapped THEN [file EXCEPT !.wrapped = FALSE]
        ELSE IF Len(top) > 0 /\ plainDiv(t[first]) /\ t[last].tag = Tag.div
        THEN [file EXCEPT !.tree =
                 [i \in 1..Len(t) |->
                     IF i = first THEN [t[i] EXCEPT !.alive = FALSE]
                     ELSE IF t[i].parent = first THEN [t[i] EXCEPT !.parent = 0]
                     ELSE t[i]]]
        ELSE file

pageInManifest(manifest, pageName) == HasKey(manifest.pages, pageName)

\* the rewrite without the check of lines 97-100
transformVueToReactiveUnchecked(file, pageName, manifest) ==
    IF ~pageInManifest(manifest, pageName) THEN file
    ELSE IF ~file.template THEN file
    ELSE LET pageManifest == Get(manifest.pages, pageName)
             t1 == transformCollections(file.tree, pageManifest.collections)
             t2 == transformFields(t1, pageManifest.fields)
         IN  [stripWrapperDiv([file EXCEPT !.tree = t2]) EXCEPT !.strapi = TRUE]

\* transformVueToReactive: the file as written back (or left alone)
transformVueToReactive(file, pageName, manifest) ==
    IF ~pageInManifest(manifest, pageName) THEN file
    ELSE IF file.strapi THEN file
    ELSE IF ~file.template THEN file
    ELSE LET pageManifest == Get(manifest.pages, pageName)
             t1 == transformCollections(file.tree, pageManifest.collections)
             t2 == transformFields(t1, pageManifest.fields)
         IN  [stripWrapperDiv([file EXCEPT !.tree = t2]) EXCEPT !.strapi = TRUE]

(***************************************************************************)
(* transformer.ts                                                          *)
(***************************************************************************)
mapFieldTypeToStrapi(fieldType) ==
    CASE fieldType = "plain" -> "string"
      [] fieldType = "rich" -> "richtext"
      [] fieldType = "html" -> "richtext"
      [] fieldType = "image" -> "media"
      [] fieldType = "link" -> "string"
      [] fieldType = "email" -> "email"
      [] fieldType = "phone" -> "string"
      [] OTHER -> "string"

pluralize(word) ==
    IF \/ EndsWith(word, <<"s">>) \/ EndsWith(word, <<"x">>) \/ EndsWith(word, <<"z">>)
       \/ EndsWith(word, <<"c", "h">>) \/ EndsWith(word, <<"s", "h">>)
    THEN word \o <<"e", "s">>
    ELSE IF /\ EndsWith(word, <<"y">>) /\ Len(word) > 1
            /\ word[Len(word) - 1] \notin {"a", "e", "i", "o", "u",
                                            "A", "E", "I", "O", "U"}
    THEN SubSeq(word, 1, Len(word) - 1) \o <<"i", "e", "s">>
    ELSE word \o <<"s">>

\* word.charAt(0).toUpperCase() + word.slice(1)
Capitalize(word) ==
    LET lower == <<"a", "b", "c", "d", "e", "f", "g", "h", "i", "j", "k", "l", "m",
                   "n", "o", "p", "q", "r", "s", "t", "u", "v", "w", "x", "y", "z">>
        upper == <<"A", "B", "C", "D", "E", "F", "G", "H", "I", "J", "K", "L", "M",
                   "N", "O", "P", "Q", "R", "S", "T", "U", "V", "W", "X", "Y", "Z">>
        up(c) == IF \E k \in 1..26 : lower[k] = c
                 THEN upper[CHOOSE k \in 1..26 : lower[k] = c] ELSE c
    IN  IF Len(word) = 0 THEN word ELSE <<up(word[1])>> \o Tail(word)

displayNameOf(words) == Join([k \in 1..Len(words) |-> Capitalize(words[k])], " ")

pageToStrapiSchema(pageName, fields) ==
    [kind |-> "singleType",
     collectionName |-> pageName,
     info |-> [singularName |-> pageName,
               pluralName |-> pluralize(pageName),
               displayName |-> displayNameOf(Split(pageName, "-"))],
     options |-> [draftAndPublish |-> TRUE],
     attributes |-> [i \in 1..Len(fields) |->
                        <<fields[i][1],
                          [type |-> mapFieldTypeToStrapi(fields[i][2].type),
                           required |-> FALSE]>>]]

collectionAttributeType(fieldName) ==
    IF fieldName = TrLit.image \/ Includes(fieldName, TrLit.image) THEN "media"
    ELSE IF fieldName = TrLit.description \/ fieldName = TrLit.content THEN "richtext"
    ELSE "string"

collectionToStrapiSchema(collectionName, collection) ==
    LET kebabCaseName == ReplaceAll(collectionName, TrLit.underscore, TrLit.dash)
    IN  [kind |-> "collectionType",
         collectionName |-> kebabCaseName,
         info |-> [singularName |-> IF EndsWith(kebabCaseName, TrLit.s)
                                    THEN SubSeq(kebabCaseName, 1, Len(kebabCaseName) - 1)
                                    ELSE kebabCaseName,
                   pluralName |-> kebabCaseName,
                   displayName |-> displayNameOf(
                        Flatten([k \in 1..Len(Split(collectionName, "-")) |->
                                    Split(Split(collectionName, "-")[k], "_")]))],
         options |-> [draftAndPublish |-> TRUE],
         attributes |-> [i \in 1..Len(collection.fields) |->
                            <<collection.fields[i][1],
                              [type |-> collectionAttributeType(
                                            collection.fields[i][1])]>>]]

RECURSIVE collectionSchemas(_, _)
collectionSchemas(collections, schemas) ==
    IF Len(collections) = 0 THEN schemas
    ELSE collectionSchemas(Tail(collections),
            Put(schemas, collections[1][1],
                collectionToStrapiSchema(collections[1][1], collections[1][2])))

RECURSIVE pageSchemas(_, _)
pageSchemas(pages, schemas) ==
    IF Len(pages) = 0 THEN schemas
    ELSE LET pageName == pages[1][1]
             page == pages[1][2]
             s1 == IF Len(page.fields) > 0
                   THEN Put(schemas, pageName, pageToStrapiSchema(pageName, page.fields))
                   ELSE schemas
         IN  pageSchemas(Tail(pages), collectionSchemas(page.collections, s1))

manifestToSchemas(manifest) == pageSchemas(manifest.pages, <<>>)

(***************************************************************************)
(* content-extractor.ts                                                    *)
(***************************************************************************)
\* element.attr('src') || element.find('img').attr('src') || ''
srcOf(t, el) ==
    IF Len(t[el].src) > 0 THEN t[el].src
    ELSE LET img == FirstImgIn(t, {el})
         IN  IF img # 0 THEN t[img].src ELSE <<>>

RECURSIVE extractFields(_, _, _)
\* lines 39-56
extractFields(t, fields, out) ==
    IF Len(fields) = 0 THEN out
    ELSE LET fieldName == fields[1][1]
             field == fields[1][2]
             element == SeqHead(Query(t, field.selector))
         IN  extractFields(t, Tail(fields),
                IF element = 0 THEN out
                ELSE IF field.type = "image"
                THEN Put(out, fieldName, srcOf(t, element))
                ELSE Put(out, fieldName, TrimmedText(t, element)))

RECURSIVE extractItem(_, _, _, _)
\* lines 65-86: the record of one collection element
extractItem(t, elem, fields, item) ==
    IF Len(fields) = 0 THEN item
    ELSE LET fieldName == fields[1][1]
             fieldElement == SeqHead(Find(t, elem, fields[1][2]))
         IN  extractItem(t, elem, Tail(fields),
                IF fieldElement = 0 THEN item
                ELSE IF fieldName = ExtLit.image \/ Includes(fieldName, ExtLit.image)
                THEN Put(item, fieldName, srcOf(t, fieldElement))
                ELSE IF fieldName = ExtLit.link \/ fieldName = ExtLit.url
                THEN Put(item, fieldName, t[fieldElement].href)
                ELSE Put(item, fieldName, TrimmedText(t, fieldElement)))

\* the extraction of a collection from its first instance only
extractItemsFirstOnly(t, collection) ==
    LET collectionElements0 == Query(t, collection.selector)
        records == [k \in 1..Len(collectionElements0) |->
                       extractItem(t, collectionElements0[k], collection.fields, <<>>)]
    IN  SelectSeq(SubSeq(records, 1, 1), LAMBDA item : Len(item) > 0)

\* lines 61-96: the items of one collection
extractItems(t, collection) ==
    LET collectionElements0 == Query(t, collection.selector)
        records == [k \in 1..Len(collectionElements0) |->
                       extractItem(t, collectionElements0[k], collection.fields, <<>>)]
    IN  SelectSeq(records, LAMBDA item : Len(item) > 0)

RECURSIVE extractCollections(_, _, _)
extractCollections(t, collections, out) ==
    IF Len(collections) = 0 THEN out
    ELSE LET items == extractItems(t, collections[1][2])
         IN  extractCollections(t, Tail(collections),
                IF Len(items) > 0 THEN Put(out, collections[1][1], items) ELSE out)

extractContentFromHTML(t, pageManifest) ==
    [fields |-> extractFields(t, pageManifest.fields, <<>>),
     collections |-> extractCollections(t, pageManifest.collections, <<>>)]

\* extractAllContent: htmlFiles is the map pageName -> original tree
extractAllContent(htmlFiles, manifest) ==
    LET withHtml == SelectSeq(manifest.pages, LAMBDA e : HasKey(htmlFiles, e[1]))
    IN  [pages |-> [i \in 1..Len(withHtml) |->
                       <<withHtml[i][1],
                         extractContentFromHTML(Get(htmlFiles, withHtml[i][1]),
                                                withHtml[i][2])>>]]

\* path.basename, as content-extractor.ts:137 calls it
Basename(path) ==
    LET parts == SelectSeq(Split(path, "/"), LAMBDA x : Len(x) > 0)
    IN  IF Len(parts) = 0 THEN <<>> ELSE parts[Len(parts)]

\* normalizeImagePath without the early return for a source that already
\* starts with "/"
normalizeImagePathAlways(imageSrc) ==
    IF Len(imageSrc) = 0 THEN <<>>
    ELSE IF Includes(imageSrc, ExtLit.images_slash)
    THEN ExtLit.slash_images_slash \o Basename(imageSrc)
    ELSE ExtLit.slash \o Basename(imageSrc)

normalizeImagePath(imageSrc) ==
    IF Len(imageSrc) = 0 THEN <<>>
    ELSE IF StartsWith(imageSrc, ExtLit.slash) THEN imageSrc
    ELSE IF Includes(imageSrc, ExtLit.images_slash)
    THEN ExtLit.slash_images_slash \o Basename(imageSrc)
    ELSE ExtLit.slash \o Basename(imageSrc)

formatFields(fields) ==
    [i \in 1..Len(fields) |->
        <<fields[i][1],
          IF Includes(fields[i][1], ExtLit.image) \/ Includes(fields[i][1], ExtLit.bg)
          THEN normalizeImagePath(fields[i][2]) ELSE fields[i][2]>>]

formatItem(item) ==
    [i \in 1..Len(item) |->
        <<item[i][1],
          IF item[i][1] = ExtLit.image \/ Includes(item[i][1], ExtLit.image)
          THEN normalizeImagePath(item[i][2]) ELSE item[i][2]>>]

RECURSIVE formatCollections(_, _)
formatCollections(collections, seedData) ==
    IF Len(collections) = 0 THEN seedData
    ELSE formatCollections(Tail(collections),
            Put(seedData, collections[1][1],
                [k \in 1..Len(collections[1][2]) |-> formatItem(collections[1][2][k])]))

RECURSIVE formatPages(_, _)
formatPages(pages, seedData) ==
    IF Len(pages) = 0 THEN seedData
    ELSE LET content == pages[1][2]
             s1 == IF Len(content.fields) > 0
                   THEN Put(seedData, pages[1][1], formatFields(content.fields))
                   ELSE seedData
         IN  formatPages(Tail(pages), formatCollections(content.collections, s1))

formatForStrapi(extracted) == formatPages(extracted.pages, <<>>)

(***************************************************************************)
(* Input pages.  Each tree is a page body as exported; the catalogue holds *)
(* the structural cases the inference and codegen code distinguishes.     *)
(***************************************************************************)
\* one plain wrapper div around a classed heading
TreePlain ==
    << El(0, Tag.div, <<>>, <<>>, <<>>, <<>>),
       El(1, Tag.h2, <<<<"p", "a", "g", "e", "-", "t", "i", "t", "l", "e">>>>, <<"H", "i">>, <<>>, <<>>) >>

\* a hero section: generic heading, paragraph, internal button link, image
TreeHero ==
    << El(0, Tag.div, <<<<"h", "e", "r", "o", "-", "s", "e", "c", "t", "i", "o", "n">>>>, <<>>, <<>>, <<>>),
       El(1, Tag.h1, <<>>, <<"W", "e", "l", "c", "o", "m", "e">>, <<>>, <<>>),
       El(1, Tag.p, <<<<"h", "e", "r", "o", "-", "t", "e", "x", "t">>>>, <<"L", "o", "r", "e", "m", " ", "i", "p", "s", "u", "m", " ", "d", "o", "l", "o", "r", " ", "s", "i", "t", ".">>, <<>>, <<>>),
       El(1, Tag.a, <<<<"c", "_", "b", "u", "t", "t", "o", "n">>>>, <<"G", "o", " ", "n", "o", "w">>, <<>>, <<"a", "b", "o", "u", "t", ".", "h", "t", "m", "l">>),
       El(0, Tag.div, <<<<"i", "n", "t", "r", "o", "-", "i", "m", "a", "g", "e">>>>, <<>>, <<>>, <<>>),
       El(5, Tag.img, <<>>, <<>>, <<"i", "m", "a", "g", "e", "s", "/", "a", ".", "p", "n", "g">>, <<>>) >>

\* three story cards, each with a wrapped image, a classed heading and paragraph
TreeStoryCards ==
    << El(0, Tag.div, <<<<"s", "t", "o", "r", "y", "-", "c", "a", "r", "d">>>>, <<>>, <<>>, <<>>),
       El(1, Tag.div, <<<<"c", "a", "r", "d", "-", "i", "m", "a", "g", "e">>>>, <<>>, <<>>, <<>>),
       El(2, Tag.img, <<>>, <<>>, <<"i", "m", "a", "g", "e", "s", "/", "1", ".", "p", "n", "g">>, <<>>),
       El(1, Tag.h3, <<<<"c", "a", "r", "d", "-", "t", "i", "t", "l", "e">>>>, <<"O", "n", "e">>, <<>>, <<>>),
       El(1, Tag.p, <<<<"c", "a", "r", "d", "-", "t", "e", "x", "t">>>>, <<"L", "o", "r", "e", "m", " ", "i", "p", "s", "u", "m", " ", "d", "o", "l", "o", "r", " ", "s", "i", "t", ".">>, <<>>, <<>>),
       El(0, Tag.div, <<<<"s", "t", "o", "r", "y", "-", "c", "a", "r", "d">>>>, <<>>, <<>>, <<>>),
       El(6, Tag.div, <<<<"c", "a", "r", "d", "-", "i", "m", "a", "g", "e">>>>, <<>>, <<>>, <<>>),
       El(7, Tag.img, <<>>, <<>>, <<"i", "m", "a", "g", "e", "s", "/", "2", ".", "p", "n", "g">>, <<>>),
       El(6, Tag.h3, <<<<"c", "a", "r", "d", "-", "t", "i", "t", "l", "e">>>>, <<"T", "w", "o">>, <<>>, <<>>),
       El(6, Tag.p, <<<<"c", "a", "r", "d", "-", "t", "e", "x", "t">>>>, <<"L", "o", "r", "e", "m", " ", "i", "p", "s", "u", "m", " ", "d", "o", "l", "o", "r", " ", "s", "i", "t", ".">>, <<>>, <<>>),
       El(0, Tag.div, <<<<"s", "t", "o", "r", "y", "-", "c", "a", "r", "d">>>>, <<>>, <<>>, <<>>),
       El(11, Tag.div, <<<<"c", "a", "r", "d", "-", "i", "m", "a", "g", "e">>>>, <<>>, <<>>, <<>>),
       El(12, Tag.img, <<>>, <<>>, <<"i", "m", "a", "g", "e", "s", "/", "3", ".", "p", "n", "g">>, <<>>),
       El(11, Tag.h3, <<<<"c", "a", "r", "d", "-", "t", "i", "t", "l", "e">>>>, <<"T", "h", "r", "e", "e">>, <<>>, <<>>),
       El(11, Tag.p, <<<<"c", "a", "r", "d", "-", "t", "e", "x", "t">>>>, <<"L", "o", "r", "e", "m", " ", "i", "p", "s", "u", "m", " ", "d", "o", "l", "o", "r", " ", "s", "i", "t", ".">>, <<>>, <<>>) >>

\* three story cards whose image, heading and paragraph carry no class
TreeBareCards ==
    << El(0, Tag.div, <<<<"s", "t", "o", "r", "y", "-", "c", "a", "r", "d">>>>, <<>>, <<>>, <<>>),
       El(1, Tag.img, <<>>, <<>>, <<"i", "m", "a", "g", "e", "s", "/", "1", ".", "p", "n", "g">>, <<>>),
       El(1, Tag.h3, <<>>, <<"O", "n", "e">>, <<>>, <<>>),
       El(1, Tag.p, <<>>, <<"L", "o", "r", "e", "m", " ", "i", "p", "s", "u", "m", " ", "d", "o", "l", "o", "r", " ", "s", "i", "t", ".">>, <<>>, <<>>),
       El(0, Tag.div, <<<<"s", "t", "o", "r", "y", "-", "c", "a", "r", "d">>>>, <<>>, <<>>, <<>>),
       El(5, Tag.img, <<>>, <<>>, <<"i", "m", "a", "g", "e", "s", "/", "2", ".", "p", "n", "g">>, <<>>),
       El(5, Tag.h3, <<>>, <<"T", "w", "o">>, <<>>, <<>>),
       El(5, Tag.p, <<>>, <<"L", "o", "r", "e", "m", " ", "i", "p", "s", "u", "m", " ", "d", "o", "l", "o", "r", " ", "s", "i", "t", ".">>, <<>>, <<>>),
       El(0, Tag.div, <<<<"s", "t", "o", "r", "y", "-", "c", "a", "r", "d">>>>, <<>>, <<>>, <<>>),
       El(9, Tag.img, <<>>, <<>>, <<"i", "m", "a", "g", "e", "s", "/", "3", ".", "p", "n", "g">>, <<>>),
       El(9, Tag.h3, <<>>, <<"T", "h", "r", "e", "e">>, <<>>, <<>>),
       El(9, Tag.p, <<>>, <<"L", "o", "r", "e", "m", " ", "i", "p", "s", "u", "m", " ", "d", "o", "l", "o", "r", " ", "s", "i", "t", ".">>, <<>>, <<>>) >>

\* a single feature item, an empty heading and a generic heading
TreeSingle ==
    << El(0, Tag.div, <<<<"f", "e", "a", "t", "u", "r", "e", "-", "i", "t", "e", "m">>>>, <<>>, <<>>, <<>>),
       El(1, Tag.h3, <<<<"f", "e", "a", "t", "-", "t", "i", "t", "l", "e">>>>, <<"S", "o", "l", "o">>, <<>>, <<>>),
       El(0, Tag.h2, <<>>, <<>>, <<>>, <<>>),
       El(0, Tag.h2, <<>>, <<"S", "e", "c", "o", "n", "d">>, <<>>, <<>>) >>

\* a heading outside two cards that carries the class of their titles
TreeClash ==
    << El(0, Tag.h2, <<<<"e", "n", "t", "r", "y", "-", "t", "i", "t", "l", "e">>>>, <<"T", "o", "p">>, <<>>, <<>>),
       El(0, Tag.div, <<<<"c", "a", "r", "d">>>>, <<>>, <<>>, <<>>),
       El(2, Tag.h3, <<<<"e", "n", "t", "r", "y", "-", "t", "i", "t", "l", "e">>>>, <<"O", "n", "e">>, <<>>, <<>>),
       El(0, Tag.div, <<<<"c", "a", "r", "d">>>>, <<>>, <<>>, <<>>),
       El(4, Tag.h3, <<<<"e", "n", "t", "r", "y", "-", "t", "i", "t", "l", "e">>>>, <<"T", "w", "o">>, <<>>, <<>>) >>

\* three post items with a title and an external link, the second empty
TreeUneven ==
    << El(0, Tag.div, <<<<"p", "o", "s", "t", "-", "i", "t", "e", "m">>, <<"w", "-", "d", "y", "n", "-", "i", "t", "e", "m">>>>, <<>>, <<>>, <<>>),
       El(1, Tag.h3, <<<<"p", "o", "s", "t", "-", "t", "i", "t", "l", "e">>>>, <<"F", "i", "r", "s", "t">>, <<>>, <<>>),
       El(1, Tag.a, <<>>, <<"R", "e", "a", "d">>, <<>>, <<"h", "t", "t", "p", "s", ":", "/", "/", "x", ".", "c", "o", "m", "/", "y">>),
       El(0, Tag.div, <<<<"p", "o", "s", "t", "-", "i", "t", "e", "m">>>>, <<>>, <<>>, <<>>),
       El(0, Tag.div, <<<<"p", "o", "s", "t", "-", "i", "t", "e", "m">>>>, <<>>, <<>>, <<>>),
       El(5, Tag.h3, <<<<"p", "o", "s", "t", "-", "t", "i", "t", "l", "e">>>>, <<"T", "h", "i", "r", "d">>, <<>>, <<>>),
       El(5, Tag.a, <<>>, <<"M", "o", "r", "e">>, <<>>, <<"h", "t", "t", "p", "s", ":", "/", "/", "x", ".", "c", "o", "m", "/", "z">>) >>

\* decorative images, a cc- context modifier, a srcless content image
TreeNav ==
    << El(0, Tag.div, <<<<"n", "a", "v", "-", "b", "a", "r">>>>, <<>>, <<>>, <<>>),
       El(1, Tag.img, <<>>, <<>>, <<"i", "m", "a", "g", "e", "s", "/", "n", ".", "p", "n", "g">>, <<>>),
       El(0, Tag.div, <<<<"c", "c", "-", "d", "a", "r", "k">>>>, <<>>, <<>>, <<>>),
       El(3, Tag.h2, <<>>, <<"D", "a", "r", "k">>, <<>>, <<>>),
       El(0, Tag.div, <<<<"p", "h", "o", "t", "o">>>>, <<>>, <<>>, <<>>),
       El(5, Tag.img, <<>>, <<>>, <<>>, <<>>) >>

\* an embed block, a script, a rich paragraph and an external link
TreeEmbed ==
    << El(0, Tag.div, <<<<"g", "l", "o", "b", "a", "l", "-", "e", "m", "b", "e", "d">>>>, <<>>, <<>>, <<>>),
       El(1, Tag.style, <<>>, <<>>, <<>>, <<>>),
       El(0, Tag.p, <<<<"b", "o", "d", "y", "-", "t", "e", "x", "t">>>>, <<"L", "o", "r", "e", "m", " ", "i", "p", "s", "u", "m", " ", "d", "o", "l", "o", "r", " ", "s", "i", "t", ".">>, <<>>, <<>>),
       El(3, Tag.strong, <<>>, <<"b", "o", "l", "d">>, <<>>, <<>>),
       El(0, Tag.script, <<>>, <<>>, <<>>, <<>>),
       El(0, Tag.a, <<<<"e", "x", "t">>>>, <<"O", "u", "t">>, <<>>, <<"h", "t", "t", "p", "s", ":", "/", "/", "x", ".", "c", "o", "m", "/", "y">>) >>

\* two cards; only the second holds the two list items
TreeNested ==
    << El(0, Tag.div, <<<<"c", "a", "r", "d">>>>, <<>>, <<>>, <<>>),
       El(1, Tag.p, <<<<"c", "a", "r", "d", "-", "d", "e", "s", "c">>>>, <<"L", "o", "r", "e", "m", " ", "i", "p", "s", "u", "m", " ", "d", "o", "l", "o", "r", " ", "s", "i", "t", ".">>, <<>>, <<>>),
       El(0, Tag.div, <<<<"c", "a", "r", "d">>>>, <<>>, <<>>, <<>>),
       El(3, Tag.div, <<<<"l", "i", "s", "t", "-", "i", "t", "e", "m">>>>, <<>>, <<>>, <<>>),
       El(4, Tag.h4, <<<<"i", "t", "e", "m", "-", "t", "i", "t", "l", "e">>>>, <<"A">>, <<>>, <<>>),
       El(3, Tag.div, <<<<"l", "i", "s", "t", "-", "i", "t", "e", "m">>>>, <<>>, <<>>, <<>>),
       El(6, Tag.h4, <<<<"i", "t", "e", "m", "-", "t", "i", "t", "l", "e">>>>, <<"B">>, <<>>, <<>>) >>

Catalog == <<TreePlain, TreeHero, TreeStoryCards, TreeBareCards, TreeSingle, TreeClash, TreeUneven, TreeNav, TreeEmbed, TreeNested>>

\* findHTMLFiles: the export holds two top-level pages and a nested one
htmlFiles == <<<<"i", "n", "d", "e", "x", ".", "h", "t", "m", "l">>,
              <<"a", "b", "o", "u", "t", ".", "h", "t", "m", "l">>,
              <<"b", "l", "o", "g", "/", "p", "o", "s", "t", ".", "h", "t", "m", "l">>>>


(***************************************************************************)
(* converter.ts (convertWebflowExport) and the page loops of detector.ts   *)
(* and vue-transformer.ts                                                  *)
(***************************************************************************)
(***************************************************************************)
(* manifest-loader.ts (ManifestLoader).  store is the private field         *)
(* manifest: <<>> for null, <<m>> for a loaded document.  An accessor      *)
(* returns [error, value]; error is "none" when it returns normally.        *)
(***************************************************************************)
Return(value) == [error |-> "none", value |-> value]
NotLoaded == [error |-> "ManifestNotLoaded", value |-> <<>>]

getManifest(store) == IF store = <<>> THEN NotLoaded ELSE Return(store[1])

getPageNames(store) ==
    LET m == getManifest(store)
    IN  IF m.error # "none" THEN m ELSE Return(Keys(m.value.pages))

\* null is <<>>, a found value v is <<v>>
getPageFields(store, pageName) ==
    LET m == getManifest(store)
    IN  IF m.error # "none" THEN m
        ELSE IF HasKey(m.value.pages, pageName)
        THEN Return(<<Get(m.value.pages, pageName).fields>>)
        ELSE Return(<<>>)

getPage(store, pageName) ==
    LET m == getManifest(store)
    IN  IF m.error # "none" THEN m
        ELSE IF HasKey(m.value.pages, pageName)
        THEN Return(<<Get(m.value.pages, pageName)>>)
        ELSE Return(<<>>)

getEditableFields(store, pageName) ==
    LET fields == getPageFields(store, pageName)
    IN  IF fields.error # "none" THEN fields
        ELSE IF fields.value = <<>> THEN Return(<<>>)
        ELSE Return(SelectSeq(fields.value[1], LAMBDA f : f[2].editable))

\* String.prototype.toLowerCase
toLowerCase(str) ==
    LET upper == <<"A", "B", "C", "D", "E", "F", "G", "H", "I", "J", "K", "L", "M",
                   "N", "O", "P", "Q", "R", "S", "T", "U", "V", "W", "X", "Y", "Z">>
        lower == <<"a", "b", "c", "d", "e", "f", "g", "h", "i", "j", "k", "l", "m",
                   "n", "o", "p", "q", "r", "s", "t", "u", "v", "w", "x", "y", "z">>
        down(c) == IF \E k \in 1..26 : upper[k] = c
                   THEN lower[CHOOSE k \in 1..26 : upper[k] = c] ELSE c
    IN  [k \in 1..Len(str) |-> down(str[k])]

\* path.toLowerCase().replace(/\/$/, '') || '/'
routeKey(routePath) ==
    LET low == toLowerCase(routePath)
        cut == IF EndsWith(low, <<"/">>) THEN SubSeq(low, 1, Len(low) - 1) ELSE low
    IN  IF cut = <<>> THEN <<"/">> ELSE cut

getPageFromRoute(store, routePath) ==
    LET m == getManifest(store)
        normalizedPath == routeKey(routePath)
        hits == SelectSeq(m.value.pages,
                          LAMBDA e : routeKey(e[2].meta.route) = normalizedPath)
    IN  IF m.error # "none" THEN m
        ELSE IF Len(hits) > 0 THEN Return(<<hits[1][1]>>)
        ELSE IF normalizedPath = <<"/">> THEN Return(<<ParLit.index>>)
        ELSE Return(<<>>)

getRouteForPage(store, pageName) ==
    LET page == getPage(store, pageName)
    IN  IF page.error # "none" THEN page
        ELSE IF page.value = <<>> THEN Return(<<>>)
        ELSE Return(<<page.value[1].meta.route>>)

hasPage(store, pageName) ==
    LET m == getManifest(store)
    IN  IF m.error # "none" THEN m ELSE Return(HasKey(m.value.pages, pageName))

getAllPages(store) ==
    LET m == getManifest(store)
    IN  IF m.error # "none" THEN m
        ELSE Return([k \in 1..Len(m.value.pages) |->
                        [name |-> m.value.pages[k][1],
                         route |-> m.value.pages[k][2].meta.route,
                         fieldCount |-> Len(m.value.pages[k][2].fields)]])

\* clearCache that keeps the cached document
clearCacheKeep(store) == store

clearCache(store) == <<>>

\* load, line 38: the cached document is returned without a request
loadIsCached(store) == store # <<>>

\* load, line 48: the parsed response body becomes the cached document
loadResolved(store, document) == <<document>>

\* the read accessors, and what a call with the argument arg returns
Accessors ==
    {"getManifest", "getPageNames", "getPageFields", "getPage", "getEditableFields",
     "getPageFromRoute", "getRouteForPage", "hasPage", "getAllPages"}

Call(name, store, arg) ==
    CASE name = "getManifest" -> getManifest(store)
      [] name = "getPageNames" -> getPageNames(store)
      [] name = "getPageFields" -> getPageFields(store, arg)
      [] name = "getPage" -> getPage(store, arg)
      [] name = "getEditableFields" -> getEditableFields(store, arg)
      [] name = "getPageFromRoute" -> getPageFromRoute(store, arg)
      [] name = "getRouteForPage" -> getRouteForPage(store, arg)
      [] name = "hasPage" -> hasPage(store, arg)
      [] name = "getAllPages" -> getAllPages(store)

\* number of times transformAllVuePages is run on the generated project
MaxRuns == 2

\* number of times the conversion is run again on the same two directories
MaxReruns == 1

VARIABLES
    source,          \* file index -> tree: the content of each exported HTML file
    pc,              \* the step convertWebflowExport is at
    idx,             \* loop index into htmlFiles
    htmlContentMap,  \* pageName -> original tree (step 5)
    pagesDir,        \* path under pages/ -> Vue file
    todo,            \* analyzeVuePages: directory entries still to visit, in order
    analyzed,        \* analyzeVuePages: results so far
    manifest,        \* <<>> or <<the manifest>>: cms-manifest.json at the root
    publicManifest,  \* <<>> or <<the manifest>>: public/cms-manifest.json
    extracted,       \* <<>> or <<the extracted content>>
    seedData,        \* <<>> or <<the seed data>>
    schemas,         \* <<>> or <<the backend schemas>>
    runs,            \* transformAllVuePages runs started
    rtodo,           \* transformAllVuePages: entries still to visit, in order
    thrown,          \* the files whose processing threw, in order
    reruns,          \* conversions started after a completed one
    cached,          \* ManifestLoader.manifest: <<>> (null) or <<document>>
    inflight,        \* load() calls that are awaiting their response
    phase,           \* history: "fresh", "failed", "cleared" or "loaded"
    lastCall,        \* history: the last accessor call and what it returned
    unit,            \* one call of an exported function: its input and result
    drafts,          \* DraftStorageManager: page -> the fields of its stored draft
    saveDebouncers,  \* DraftStorageManager.saveDebouncers: page -> timer id, 0 for none
    timers,          \* the setTimeout callbacks of saveDraft that are still to run
    writes,          \* saveDraft callbacks that have loaded the draft and not yet stored it
    lastSaved,       \* history: the value last passed to saveDraft, per page and field
    saves,           \* saveDraft calls made
    button,          \* the toolbar's publish button: disabled and textContent
    publish,         \* publishAll: where it is, what it sent, what came back
    restores,        \* pending setTimeout callbacks that restore the button
    publishes,       \* publishAll calls made
    isEnabled,       \* initEditor: isEnabled
    currentPage,     \* initEditor: currentPage
    dom,             \* the document: field -> textContent of the field's element
    editableElements,\* initEditor: field -> originalValue, currentValue, isDirty
    attached,        \* the click listeners of the editable elements are attached
    loads,           \* enable() calls awaiting loadDraft, by the page they load
    debouncers,      \* initEditor: debouncers, field -> the value its timer holds, "" for none
    request,         \* save(): the request in flight and how it settled
    edits,           \* text edits made
    requests,        \* save() calls that sent a request
    guard,           \* NavigationGuard: enabled, clickHandler set, handlers on the document
    navigations,     \* allowNavigation calls whose callback has not settled; called:
                     \* enable() or disable() was called while the callback ran
    lastNavigation,  \* history: the allowNavigation call that settled last
    guardCalls       \* calls made on the guard

converterVars == <<source, pc, idx, htmlContentMap, pagesDir, todo, analyzed,
                   manifest, publicManifest, extracted, seedData, schemas, runs,
                   rtodo, thrown, reruns>>
loaderVars == <<cached, inflight, phase, lastCall>>
draftVars == <<drafts, saveDebouncers, timers, writes, lastSaved, saves>>
toolbarVars == <<button, publish, restores, publishes>>
editorVars == <<isEnabled, currentPage, dom, editableElements, attached, loads, debouncers,
                request, edits, requests>>
guardVars == <<guard, navigations, lastNavigation, guardCalls>>
overlayVars == <<draftVars, toolbarVars, editorVars, guardVars>>
vars == <<converterVars, loaderVars, unit, overlayVars>>

\* the pages and fields of the project the overlay edits, and the texts typed
DraftPages == {"home", "about"}
DraftFields == {"title", "body"}
Texts == {"a", "b"}

\* a draft without fields: what loadDraft's null and `existingDraft?.fields || {}` give
NoFields == [f \in DraftFields |-> ""]

\* the overlay as its constructors leave it
InitOverlay ==
    /\ drafts = [p \in DraftPages |-> NoFields]
    /\ saveDebouncers = [p \in DraftPages |-> 0]
    /\ timers = {}
    /\ writes = {}
    /\ lastSaved = [p \in DraftPages |-> NoFields]
    /\ saves = 0
    /\ button = [disabled |-> FALSE, textContent |-> "Publish"]
    /\ publish = [pc |-> "idle", originalText |-> "", sent |-> [p \in DraftPages |-> NoFields],
                  successful |-> {}]
    /\ restores = {}
    /\ publishes = 0
    /\ isEnabled = FALSE
    /\ currentPage = "home"
    /\ dom = [f \in DraftFields |-> "o"]
    /\ editableElements = <<>>
    /\ attached = FALSE
    /\ loads = {}
    /\ debouncers = NoFields
    /\ request = [pc |-> "idle", changes |-> NoFields, ok |-> FALSE]
    /\ edits = 0
    /\ requests = 0
    /\ guard = [enabled |-> FALSE, clickHandler |-> FALSE, handlers |-> 0]
    /\ navigations = {}
    /\ lastNavigation = [id |-> 0, wasEnabled |-> FALSE, called |-> FALSE,
                         enabled |-> FALSE, threw |-> FALSE]
    /\ guardCalls = 0

\* htmlFile.replace('.html', '').replace(/\//g, '-')
pageNameOf(htmlFile) ==
    ReplaceAll(ReplaceFirst(htmlFile, ParLit.dot_html, <<>>), ParLit.slash, ParLit.dash)

\* writeVueComponent: fileName.replace('.html', '.vue') under pages/
vuePathOf(htmlFile) == ReplaceFirst(htmlFile, ParLit.dot_html, ParLit.dot_vue)

\* the characters of file names, in code-unit order
Alphabet ==
    <<"-", ".", "/", "0", "1", "2", "3", "4", "5", "6", "7", "8", "9", "_",
      "a", "b", "c", "d", "e", "f", "g", "h", "i", "j", "k", "l", "m",
      "n", "o", "p", "q", "r", "s", "t", "u", "v", "w", "x", "y", "z">>
CharRank(c) == CHOOSE k \in 1..Len(Alphabet) : Alphabet[k] = c

RECURSIVE NameBefore(_, _)
\* strcmp(a, b) < 0
NameBefore(a, b) ==
    IF Len(b) = 0 THEN FALSE
    ELSE IF Len(a) = 0 THEN TRUE
    ELSE IF a[1] # b[1] THEN CharRank(a[1]) < CharRank(b[1])
    ELSE NameBefore(Tail(a), Tail(b))

RECURSIVE SortNames(_)
SortNames(S) ==
    IF S = {} THEN <<>>
    ELSE LET least == CHOOSE x \in S : \A y \in S \ {x} : NameBefore(x, y)
         IN  <<least>> \o SortNames(S \ {least})

\* fs.readdir(pagesDir): the names directly under pages/, which the
\* directory scan returns sorted by name
readdir(dir) == SortNames({Split(dir[i][1], "/")[1] : i \in 1..Len(dir)})

\* writeVueComponent that leaves a file alone when the path already exists
writeVueComponentKeep(dir, fileName, content) ==
    IF HasKey(dir, vuePathOf(fileName)) THEN dir
    ELSE Put(dir, vuePathOf(fileName), content)

\* fs.writeFile(path.join(pagesDir, vueName), content): creates or overwrites
writeVueComponent(dir, fileName, content) == Put(dir, vuePathOf(fileName), content)

\* a component without <template> block that the output directory may
\* already hold under pages/ before the conversion
staleVue == <<"d", "r", "a", "f", "t", ".", "v", "u", "e">>
StaleFile == [strapi |-> FALSE, template |-> FALSE, wrapped |-> FALSE, tree |-> <<>>]

TopLevelFiles == {f \in {htmlFiles[i] : i \in 1..Len(htmlFiles)} : ~Includes(f, ParLit.slash)}

NoCall ==
    [name |-> "none", arg |-> <<>>, phase |-> "fresh", tick |-> 0, result |-> Return(<<>>)]

InitLoader ==
    /\ cached = <<>>
    /\ inflight = 0
    /\ phase = "fresh"
    /\ lastCall = NoCall

Init ==
    /\ InitLoader
    /\ source \in {f \in [1..Len(htmlFiles) -> {Catalog[k] : k \in 1..Len(Catalog)}] :
                      f[Len(htmlFiles)] = TreeHero}
    /\ pc = "read"
    /\ idx = 1
    /\ htmlContentMap = <<>>
    /\ pagesDir \in {<<>>, <<<<staleVue, StaleFile>>>>}
    /\ todo = <<>>
    /\ analyzed = <<>>
    /\ manifest = <<>>
    /\ publicManifest = <<>>
    /\ extracted = <<>>
    /\ seedData = <<>>
    /\ schemas = <<>>
    /\ runs = 0
    /\ rtodo = <<>>
    /\ thrown = <<>>
    /\ reruns = 0
    /\ InitOverlay
    /\ unit = [op |-> "none", input |-> <<>>, output |-> <<>>]

\* the whole conversion fails: convertWebflowExport's catch rethrows
Abort(file) ==
    /\ pc' = "failed"
    /\ thrown' = Append(thrown, file)

\* step 5, one iteration: read the file and keep its content
ReadHtml ==
    /\ pc = "read"
    /\ \E ok \in BOOLEAN :
        IF ok
        THEN /\ htmlContentMap' =
                    Put(htmlContentMap, pageNameOf(htmlFiles[idx]), source[idx])
             /\ IF idx < Len(htmlFiles)
                THEN idx' = idx + 1 /\ pc' = pc
                ELSE idx' = 1 /\ pc' = "convert"
             /\ UNCHANGED thrown
        ELSE /\ Abort(htmlFiles[idx])
             /\ UNCHANGED <<idx, htmlContentMap>>
    /\ UNCHANGED <<source, publicManifest, pagesDir, todo, analyzed, manifest, extracted, seedData,
                   schemas, runs, rtodo>>
    /\ UNCHANGED <<loaderVars, unit, reruns, overlayVars>>

\* step 6, one iteration: parse, transform, wrap, write the Vue component
ConvertPage ==
    /\ pc = "convert"
    /\ \E ok \in BOOLEAN :
        IF ok
        THEN LET html == Get(htmlContentMap, pageNameOf(htmlFiles[idx]))
                 vue == htmlToVueComponent(transformForNuxt(parseHTML(html)))
                 dir == writeVueComponent(pagesDir, htmlFiles[idx], vue)
             IN  /\ pagesDir' = dir
                 /\ IF idx < Len(htmlFiles)
                    THEN idx' = idx + 1 /\ pc' = pc /\ todo' = todo
                    ELSE idx' = 1 /\ pc' = "analyze" /\ todo' = readdir(dir)
                 /\ UNCHANGED thrown
        ELSE /\ Abort(htmlFiles[idx])
             /\ UNCHANGED <<idx, pagesDir, todo>>
    /\ UNCHANGED <<source, publicManifest, htmlContentMap, analyzed, manifest, extracted, seedData,
                   schemas, runs, rtodo>>
    /\ UNCHANGED <<loaderVars, unit, reruns, overlayVars>>

\* step 8, analyzeVuePages, one iteration of its loop over the directory
AnalyzeFile ==
    /\ pc = "analyze"
    /\ todo # <<>>
    /\ LET file == Head(todo) IN
        /\ todo' = Tail(todo)
        /\ IF EndsWith(file, ParLit.dot_vue)
           THEN \E ok \in BOOLEAN :
                  IF ok
                  THEN LET template == extractTemplateFromVue(Get(pagesDir, file))
                       IN  /\ analyzed' =
                                IF template # <<>>
                                THEN Put(analyzed,
                                         ReplaceFirst(file, ParLit.dot_vue, <<>>),
                                         detectEditableFields(template[1]))
                                ELSE analyzed
                           /\ UNCHANGED <<pc, thrown>>
                  ELSE /\ Abort(file)
                       /\ UNCHANGED analyzed
           ELSE UNCHANGED <<analyzed, pc, thrown>>
    /\ UNCHANGED <<source, publicManifest, idx, htmlContentMap, pagesDir, manifest, extracted,
                   seedData, schemas, runs, rtodo>>
    /\ UNCHANGED <<loaderVars, unit, reruns, overlayVars>>

\* the file writeManifest writes
manifestFile ==
    <<"c", "m", "s", "-", "m", "a", "n", "i", "f", "e", "s", "t", ".", "j", "s", "o", "n">>

\* step 8, the rest: generateManifest builds the manifest, writeManifest
\* stores it at the project root and then under public/; either write may throw
GenerateManifest ==
    /\ pc = "analyze"
    /\ todo = <<>>
    /\ \E outcome \in {"written", "rootWriteThrows", "publicWriteThrows"} :
         /\ manifest' = IF outcome = "rootWriteThrows" THEN manifest
                        ELSE <<generateManifest(analyzed)>>
         /\ publicManifest' = IF outcome = "written"
                              THEN <<generateManifest(analyzed)>>
                              ELSE publicManifest
         /\ IF outcome = "written"
            THEN pc' = "extract" /\ UNCHANGED thrown
            ELSE Abort(manifestFile)
    /\ UNCHANGED <<source, idx, htmlContentMap, pagesDir, todo, analyzed, extracted,
                   seedData, schemas, runs, rtodo>>
    /\ UNCHANGED <<loaderVars, unit, reruns, overlayVars>>

\* step 9
ExtractContent ==
    /\ pc = "extract"
    /\ LET content == extractAllContent(htmlContentMap, manifest[1])
       IN  /\ extracted' = <<content>>
           /\ seedData' = <<formatForStrapi(content)>>
    /\ pc' = "schemas"
    /\ UNCHANGED <<source, publicManifest, idx, htmlContentMap, pagesDir, todo, analyzed, manifest,
                   schemas, runs, rtodo, thrown>>
    /\ UNCHANGED <<loaderVars, unit, reruns, overlayVars>>

\* step 10
GenerateSchemas ==
    /\ pc = "schemas"
    /\ schemas' = <<manifestToSchemas(manifest[1])>>
    /\ pc' = "done"
    /\ UNCHANGED <<source, publicManifest, idx, htmlContentMap, pagesDir, todo, analyzed, manifest,
                   extracted, seedData, runs, rtodo, thrown>>
    /\ UNCHANGED <<loaderVars, unit, reruns, overlayVars>>

\* transformAllVuePages(pagesDir, manifest) is called on the converted project
StartTransformAll ==
    /\ pc = "done"
    /\ rtodo = <<>>
    /\ runs < MaxRuns
    /\ runs' = runs + 1
    /\ rtodo' = readdir(pagesDir)
    /\ UNCHANGED <<source, publicManifest, pc, idx, htmlContentMap, pagesDir, todo, analyzed,
                   manifest, extracted, seedData, schemas, thrown>>
    /\ UNCHANGED <<loaderVars, unit, reruns, overlayVars>>

\* one iteration of its loop; a throw ends the run
TransformFile ==
    /\ pc = "done"
    /\ rtodo # <<>>
    /\ LET file == Head(rtodo) IN
        IF EndsWith(file, ParLit.dot_vue)
        THEN \E ok \in BOOLEAN :
               IF ok
               THEN /\ pagesDir' =
                         Put(pagesDir, file,
                             transformVueToReactive(Get(pagesDir, file),
                                 ReplaceFirst(file, ParLit.dot_vue, <<>>),
                                 manifest[1]))
                    /\ rtodo' = Tail(rtodo)
                    /\ UNCHANGED thrown
               ELSE /\ rtodo' = <<>>
                    /\ thrown' = Append(thrown, file)
                    /\ UNCHANGED pagesDir
        ELSE /\ rtodo' = Tail(rtodo)
             /\ UNCHANGED <<pagesDir, thrown>>
    /\ UNCHANGED <<source, publicManifest, pc, idx, htmlContentMap, todo, analyzed, manifest,
                   extracted, seedData, schemas, runs>>
    /\ UNCHANGED <<loaderVars, unit, reruns, overlayVars>>

\* convertWebflowExport is called again, after a completed conversion, with
\* the same input and output directories: its locals start afresh, the
\* files of the output directory are as the earlier calls left them
Rerun ==
    /\ pc = "done"
    /\ rtodo = <<>>
    /\ reruns < MaxReruns
    /\ reruns' = reruns + 1
    /\ pc' = "read"
    /\ idx' = 1
    /\ htmlContentMap' = <<>>
    /\ todo' = <<>>
    /\ analyzed' = <<>>
    /\ UNCHANGED <<source, pagesDir, manifest, publicManifest, extracted, seedData,
                   schemas, runs, rtodo, thrown>>
    /\ UNCHANGED <<loaderVars, unit, overlayVars>>

(***************************************************************************)
(* The ManifestLoader of the editor overlay, reading the manifest that a   *)
(* build has written under public/                                        *)
(***************************************************************************)
\* load() calls that may be awaiting a response at the same time
MaxInflight == 2

\* a CMSManifest document: the manifest of a project whose index page is
\* TreeHero and whose about page is TreeClash
BuiltManifest ==
    [ version |-> "1.0", pages |-> <<<<<<"i", "n", "d", "e", "x">>, [ fields |->
    <<<<<<"h", "e", "r", "o", "_", "s", "e", "c", "t", "i", "o", "n">>, [ selector |->
    <<".", "h", "e", "r", "o", "-", "s", "e", "c", "t", "i", "o", "n">>, type |->
    "plain", editable |-> TRUE ]>>, <<<<"h", "e", "r", "o", "_", "t", "e", "x", "t">>, [
    selector |-> <<".", "h", "e", "r", "o", "-", "t", "e", "x", "t">>, type |-> "plain",
    editable |-> TRUE ]>>, <<<<"i", "n", "t", "r", "o", "_", "i", "m", "a", "g", "e">>,
    [ selector |-> <<".", "i", "n", "t", "r", "o", "-", "i", "m", "a", "g", "e">>, type
    |-> "image", editable |-> TRUE ]>>, <<<<"b", "u", "t", "t", "o", "n", "_", "t", "e",
    "x", "t">>, [ selector |-> <<".", "c", "_", "b", "u", "t", "t", "o", "n">>, type |->
    "plain", editable |-> TRUE ]>>>>, collections |-> <<>>, meta |-> [route |-> <<"/">>]
    ]>>, <<<<"a", "b", "o", "u", "t">>, [ fields |-> <<<<<<"e", "n", "t", "r", "y", "_",
    "t", "i", "t", "l", "e">>, [ selector |-> <<".", "e", "n", "t", "r", "y", "-", "t",
    "i", "t", "l", "e">>, type |-> "plain", editable |-> TRUE ]>>>>, collections |->
    <<<<<<"c", "a", "r", "d", "s">>, [ selector |-> <<".", "c", "a", "r", "d">>, fields
    |-> <<<<<<"t", "i", "t", "l", "e">>, <<".", "e", "n", "t", "r", "y", "-", "t", "i",
    "t", "l", "e">>>>>> ]>>>>, meta |-> [route |-> <<"/", "a", "b", "o", "u", "t">>]
    ]>>>> ]

\* manifests a build may have written under public/
ServedDocuments == {generateManifest(<<>>), BuiltManifest}

PageArgs == {ParLit.index, <<"a", "b", "o", "u", "t">>, <<"m", "i", "s", "s", "i", "n", "g">>}
RouteArgs == {<<"/">>, <<"/", "A", "b", "o", "u", "t", "/">>, <<"/", "n", "o", "p", "e">>}

ArgsOf(name) ==
    IF name \in {"getManifest", "getPageNames", "getAllPages"} THEN {<<>>}
    ELSE IF name = "getPageFromRoute" THEN RouteArgs
    ELSE PageArgs

\* load(): returns the cached document, or sends the request and awaits it
Load ==
    /\ ~loadIsCached(cached)
    /\ inflight < MaxInflight
    /\ inflight' = inflight + 1
    /\ UNCHANGED <<cached, phase, lastCall>>
    /\ UNCHANGED <<converterVars, unit, overlayVars>>

\* a pending load() resumes: the response is ok and its body, the manifest
\* under public/, parses; or the request rejects, or the status is not ok
\* (always so when there is no such file), or the body does not parse
LoadSettles ==
    /\ inflight > 0
    /\ inflight' = inflight - 1
    /\ \E outcome \in {"ok", "rejected", "notOk", "badBody"} :
         IF outcome = "ok" /\ publicManifest # <<>>
         THEN /\ cached' = loadResolved(cached, publicManifest[1])
              /\ phase' = "loaded"
         ELSE /\ cached' = cached
              /\ phase' = IF phase = "loaded" THEN "loaded" ELSE "failed"
    /\ UNCHANGED lastCall
    /\ UNCHANGED <<converterVars, unit, overlayVars>>

ClearCache ==
    /\ cached' = clearCache(cached)
    /\ phase' = "cleared"
    /\ UNCHANGED <<inflight, lastCall>>
    /\ UNCHANGED <<converterVars, unit, overlayVars>>

\* reload(): clearCache(), then load() sends a request
Reload ==
    /\ inflight < MaxInflight
    /\ cached' = clearCache(cached)
    /\ phase' = "cleared"
    /\ inflight' = inflight + 1
    /\ UNCHANGED lastCall
    /\ UNCHANGED <<converterVars, unit, overlayVars>>

\* a read accessor is called; tick tells two equal calls apart
CallAccessor ==
    /\ \E name \in Accessors : \E arg \in ArgsOf(name) :
         lastCall' = [name |-> name, arg |-> arg, phase |-> phase,
                      tick |-> 1 - lastCall.tick,
                      result |-> Call(name, cached, arg)]
    /\ UNCHANGED <<cached, inflight, phase>>
    /\ UNCHANGED <<converterVars, unit, overlayVars>>

NextLoader ==
    \/ Load
    \/ LoadSettles
    \/ ClearCache
    \/ Reload
    \/ CallAccessor

\* the loader in a browser, against a deployment that serves the manifest
\* of an earlier build (or none), with the converter at rest
InitAtRest ==
    /\ InitLoader
    /\ source = [i \in 1..Len(htmlFiles) |-> TreeHero]
    /\ pc = "read"
    /\ idx = 1
    /\ htmlContentMap = <<>>
    /\ pagesDir = <<>>
    /\ todo = <<>>
    /\ analyzed = <<>>
    /\ publicManifest \in {<<>>} \cup {<<document>> : document \in ServedDocuments}
    /\ manifest = publicManifest
    /\ extracted = <<>>
    /\ seedData = <<>>
    /\ schemas = <<>>
    /\ runs = 0
    /\ rtodo = <<>>
    /\ thrown = <<>>
    /\ reruns = 0
    /\ InitOverlay
    /\ unit = [op |-> "none", input |-> <<>>, output |-> <<>>]

SpecLoader == InitAtRest /\ [][NextLoader]_vars

(***************************************************************************)
(* Single calls.  The exported functions are also called one at a time, on *)
(* one input; unit holds the function, its input and, once it returned,    *)
(* its result.                                                             *)
(***************************************************************************)
\* the inputs: pages of two blocks, link targets, image sources, manifests
\* and extracted contents
InitUnit ==
    LET h(tag, cls, text) == <<El(0, tag, <<cls>>, text, <<>>, <<>>)>>
        p(cls, text) == <<El(0, Tag.p, cls, text, <<>>, <<>>)>>
        inside(cls, inner) ==
            <<El(0, Tag.div, <<cls>>, <<>>, <<>>, <<>>)>>
                \o [i \in 1..Len(inner) |-> [inner[i] EXCEPT !.parent = @ + 1]]
        img(src) == <<El(0, Tag.img, <<>>, <<>>, src, <<>>)>>
        long == <<"L", "o", "r", "e", "m", " ", "i", "p", "s", "u", "m", " ", "d", "o", "l", "o", "r", " ", "s", "i", "t", ".">>
        Blocks ==
            << h(Tag.h2, <<"p", "a", "g", "e", "-", "t", "i", "t", "l", "e">>, <<"H", "i">>),
               p(<<<<"p", "a", "g", "e", "_", "t", "i", "t", "l", "e">>>>, long) \o <<El(1, Tag.em, <<>>, <<"e", "m">>, <<>>, <<>>)>>,
               p(<<>>, long),
               p(<<<<"n", "o", "t", "e">>>>, <<"S", "h", "o", "r", "t", " ", "n", "o", "t", "e">>),
               p(<<<<"l", "e", "a", "d">>>>, long)
                   \o <<El(1, Tag.a, <<>>, <<"m", "o", "r", "e">>, <<>>, <<"a", "b", "o", "u", "t", ".", "h", "t", "m", "l">>)>>,
               p(<<<<"b", "o", "d", "y", "-", "t", "e", "x", "t">>>>, long),
               p(<<<<"f", "i", "n", "e", "-", "p", "r", "i", "n", "t">>>>, <<"L", "o", "r", "e", "m", " ", "i", "p", "s", "u", "m", " ", "d", "o", "l", "o", "r", " ", "s", "i", " ", " ", " ">>),
               inside(<<"n", "a", "v", "-", "b", "a", "r">>, img(<<"i", "m", "a", "g", "e", "s", "/", "n", ".", "p", "n", "g">>)),
               inside(<<"l", "o", "g", "o", "-", "w", "r", "a", "p">>, inside(<<"b", "r", "a", "n", "d">>, img(<<"i", "m", "a", "g", "e", "s", "/", "l", ".", "p", "n", "g">>))),
               inside(<<"p", "h", "o", "t", "o">>, img(<<"i", "m", "a", "g", "e", "s", "/", "p", ".", "p", "n", "g">>)),
               h(Tag.h3, <<"p", "h", "o", "t", "o", "-", "i", "m", "a", "g", "e">>, <<"P", "i", "c">>),
               inside(<<"f", "e", "a", "t", "u", "r", "e", "-", "s", "t", "o", "r", "y">>, h(Tag.h3, <<"s", "t", "o", "r", "y", "-", "t", "i", "t", "l", "e">>, <<"A">>)),
               inside(<<"c", "a", "r", "d">>, h(Tag.h3, <<"c", "a", "r", "d", "-", "t", "i", "t", "l", "e">>, <<"A">>)),
               inside(<<"n", "e", "w", "s", "-", "p", "o", "s", "t", "s">>, h(Tag.h3, <<"n", "e", "w", "s", "-", "t", "i", "t", "l", "e">>, <<"A">>)),
               inside(<<"i", "t", "e", "m", "-", "b", "o", "x">>, h(Tag.h3, <<"b", "o", "x", "-", "t", "i", "t", "l", "e">>, <<"A">>)),
               h(Tag.h2, <<"H", "e", "r", "o", "-", "T", "i", "t", "l", "e">>, <<"H", "i">>),
               inside(<<"T", "e", "a", "m", "-", "c", "a", "r", "d">>, h(Tag.h3, <<"c", "a", "r", "d", "-", "n", "a", "m", "e">>, <<"A">>)) >>
        after(a, b) ==
            a \o [i \in 1..Len(b) |->
                    [b[i] EXCEPT !.parent = IF @ = 0 THEN 0 ELSE @ + Len(a)]]
        Pages == {after(Blocks[i], Blocks[j]) : i, j \in 1..Len(Blocks)}
        Hrefs ==
            {pre \o path :
                pre \in {<<>>, <<".", "/">>, <<".", ".", "/">>, <<".", ".", "/", ".", ".", "/">>, <<"/">>},
                path \in {<<"i", "n", "d", "e", "x", ".", "h", "t", "m", "l">>, <<"a", "b", "o", "u", "t", ".", "h", "t", "m", "l">>, <<"b", "l", "o", "g", "/", "i", "n", "d", "e", "x", ".", "h", "t", "m", "l">>,
                          <<"p", "r", "e", "s", "s", "-", "r", "e", "l", "e", "a", "s", "e", "/", "a", "r", "t", "i", "c", "l", "e", ".", "h", "t", "m", "l">>, <<"a", "b", "o", "u", "t">>, <<>>}}
            \cup {<<"#", "s", "e", "c", "t", "i", "o", "n">>, <<"h", "t", "t", "p", "s", ":", "/", "/", "x", ".", "c", "o", "m", "/", "y">>, <<"h", "t", "t", "p", ":", "/", "/", "x", ".", "c", "o", "m", "/", "y", ".", "h", "t", "m", "l">>,
                  <<"m", "a", "i", "l", "t", "o", ":", "a", "@", "b", ".", "c">>, <<"t", "e", "l", ":", "1", "2", "3">>, <<".">>, <<".", ".">>}
        Srcs ==
            {pre \o mid \o <<"a", ".", "p", "n", "g">> :
                pre \in {<<>>, <<".", "/">>, <<".", ".", "/">>, <<".", ".", "/", ".", ".", "/">>, <<"/">>, <<"/", "a", "s", "s", "e", "t", "s", "/">>,
                         <<"/", "a", "s", "s", "e", "t", "s", "/", ".", ".", "/">>, <<"h", "t", "t", "p", "s", ":", "/", "/", "x", ".", "c", "o", "m", "/">>, <<"h", "t", "t", "p", ":", "/", "/", "x", ".", "c", "o", "m", "/">>},
                mid \in {<<>>, <<"i", "m", "a", "g", "e", "s", "/">>, <<"i", "m", "a", "g", "e", "s", "/", ".", ".", "/">>}}
            \cup {<<>>}
        plainField(type) == [selector |-> <<".", "x">>, type |-> type, editable |-> TRUE]
        FieldMaps ==
            {<<>>}
            \cup {<<<<name, plainField(type)>>>> :
                    name \in {<<"t", "i", "t", "l", "e">>, <<"d", "e", "s", "c", "r", "i", "p", "t", "i", "o", "n">>},
                    type \in {"plain", "rich", "html", "image", "link", "email",
                              "phone"}}
        CollectionMaps ==
            {<<>>}
            \cup {<<<<<<"c", "a", "r", "d", "s">>, [selector |-> <<".", "c", "a", "r", "d">>, fields |-> fields]>>>> :
                    fields \in {<<>>,
                                <<<<<<"t", "i", "t", "l", "e">>, <<".", "x">>>>>>,
                                <<<<<<"d", "e", "s", "c", "r", "i", "p", "t", "i", "o", "n">>, <<".", "x">>>>>>,
                                <<<<<<"i", "m", "a", "g", "e">>, <<".", "x">>>>>>,
                                <<<<<<"t", "i", "t", "l", "e">>, <<".", "x">>>>, <<<<"d", "e", "s", "c", "r", "i", "p", "t", "i", "o", "n">>, <<".", "x">>>>>>}}
        Manifests ==
            {[version |-> "1.0",
              pages |-> <<<<<<"h", "o", "m", "e">>,
                           [fields |-> fields, collections |-> collections,
                            meta |-> [route |-> <<"/", "h", "o", "m", "e">>]]>>>>] :
                fields \in FieldMaps, collections \in CollectionMaps}
        Values == {<<>>, <<"i", "m", "a", "g", "e", "s", "/", "a", ".", "p", "n", "g">>, <<".", ".", "/", "i", "m", "a", "g", "e", "s", "/", "a", ".", "p", "n", "g">>, <<"/", "i", "m", "a", "g", "e", "s", "/", "a", ".", "p", "n", "g">>,
                   <<"a", ".", "p", "n", "g">>, <<"/", "a", "s", "s", "e", "t", "s", "/", "i", "m", "a", "g", "e", "s", "/", "a", ".", "p", "n", "g">>, <<"h", "t", "t", "p", "s", ":", "/", "/", "x", ".", "c", "o", "m", "/", "b", "/", "a", ".", "p", "n", "g">>,
                   <<"i", "m", "a", "g", "e", "s", "/">>, <<"i", "m", "a", "g", "e", "s", "/", "s", "u", "b", "/", "a", ".", "p", "n", "g">>}
        Extracts ==
            {[pages |-> <<<<<<"h", "o", "m", "e">>,
                           [fields |-> <<<<<<"p", "h", "o", "t", "o", "_", "i", "m", "a", "g", "e">>, v>>>>,
                            collections |->
                                <<<<<<"c", "a", "r", "d", "s">>, <<<<<<<<"i", "m", "a", "g", "e">>, w>>>>>>>>>>]>>>>] :
                v, w \in Values}
        call(op, inputs) == {[op |-> op, input |-> x, output |-> <<>>] : x \in inputs}
    IN  /\ InitLoader
        /\ source = [i \in 1..Len(htmlFiles) |-> TreeHero]
        /\ pc = "read"
        /\ idx = 1
        /\ htmlContentMap = <<>>
        /\ pagesDir = <<>>
        /\ todo = <<>>
        /\ analyzed = <<>>
        /\ manifest = <<>>
        /\ publicManifest = <<>>
        /\ extracted = <<>>
        /\ seedData = <<>>
        /\ schemas = <<>>
        /\ runs = 0
        /\ rtodo = <<>>
        /\ thrown = <<>>
        /\ reruns = 0
        /\ InitOverlay
        /\ \/ unit \in call("detectEditableFields", Pages)
           \/ unit \in call("transformForNuxt:a", Hrefs)
           \/ unit \in call("transformForNuxt:img", Srcs \X BOOLEAN)
           \/ unit \in call("manifestToSchemas", Manifests)
           \/ unit \in call("formatForStrapi", Extracts)

\* a page goes through steps 6 and 8 of the conversion: it is parsed,
\* transformed, wrapped into a component, and its template is analyzed
Detect ==
    /\ unit.op = "detectEditableFields"
    /\ unit.output = <<>>
    /\ unit' = [unit EXCEPT !.output = <<
            detectEditableFields(
                extractTemplateFromVue(
                    htmlToVueComponent(transformForNuxt(parseHTML(unit.input))))[1])>>]
    /\ UNCHANGED <<converterVars, loaderVars, overlayVars>>

\* transformForNuxt on a page that holds one link to unit.input
RewriteLink ==
    /\ unit.op = "transformForNuxt:a"
    /\ unit.output = <<>>
    /\ unit' = [unit EXCEPT !.output = <<
            transformForNuxt(
                <<El(0, Tag.a, <<<<"n", "a", "v", "-", "l", "i", "n", "k">>>>, <<"G", "o">>, <<>>, unit.input)>>)>>]
    /\ UNCHANGED <<converterVars, loaderVars, overlayVars>>

\* transformForNuxt on a page that holds one image with source unit.input[1],
\* with or without srcset and sizes attributes
RewriteImage ==
    /\ unit.op = "transformForNuxt:img"
    /\ unit.output = <<>>
    /\ unit' = [unit EXCEPT !.output = <<
            transformForNuxt(
                <<[El(0, Tag.img, <<>>, <<>>, unit.input[1], <<>>)
                      EXCEPT !.srcset = unit.input[2], !.sizes = unit.input[2]]>>)>>]
    /\ UNCHANGED <<converterVars, loaderVars, overlayVars>>

Compile ==
    /\ unit.op = "manifestToSchemas"
    /\ unit.output = <<>>
    /\ unit' = [unit EXCEPT !.output = <<
            manifestToSchemas(unit.input)>>]
    /\ UNCHANGED <<converterVars, loaderVars, overlayVars>>

FormatSeed ==
    /\ unit.op = "formatForStrapi"
    /\ unit.output = <<>>
    /\ unit' = [unit EXCEPT !.output = <<
            formatForStrapi(unit.input)>>]
    /\ UNCHANGED <<converterVars, loaderVars, overlayVars>>

NextUnit ==
    \/ Detect
    \/ RewriteLink
    \/ RewriteImage
    \/ Compile
    \/ FormatSeed

SpecUnit == InitUnit /\ [][NextUnit]_vars

Next ==
    \/ ReadHtml
    \/ ConvertPage
    \/ AnalyzeFile
    \/ GenerateManifest
    \/ ExtractContent
    \/ GenerateSchemas
    \/ StartTransformAll
    \/ TransformFile

Spec == Init /\ [][Next]_vars

\* the conversion, the template rewrite, and the conversion run again
NextRerun ==
    \/ ReadHtml
    \/ ConvertPage
    \/ AnalyzeFile
    \/ GenerateManifest
    \/ ExtractContent
    \/ GenerateSchemas
    \/ StartTransformAll
    \/ TransformFile
    \/ Rerun

\* exports whose pages hold an unclassed heading, a group of cards, or both
InitRerun ==
    /\ Init
    /\ \A i \in 1..Len(htmlFiles) :
          source[i] \in {TreeHero, TreeSingle, TreeStoryCards, TreeClash, TreeNested}

SpecRerun == InitRerun /\ [][NextRerun]_vars

(***************************************************************************)
(* The draft storage of the editor overlay (DraftStorageManager) and the   *)
(* toolbar's publish button.  Storage requests succeed.                    *)
(***************************************************************************)
\* saveDraft calls and publishAll calls the overlay makes
MaxSaves == 2
MaxPublishes == 1

\* pages that have a stored draft
Drafted(store) == {p \in DraftPages : store[p] # NoFields}

\* saveDraft(page, fieldName, value): the timer the map holds for the page
\* is cleared, a new one is set and put in the map
SaveDraft ==
    /\ saves < MaxSaves
    /\ \E page \in DraftPages, fieldName \in DraftFields, value \in Texts :
        /\ timers' = {t \in timers : t.id # saveDebouncers[page]}
                        \cup {[id |-> saves + 1, page |-> page,
                                fieldName |-> fieldName, value |-> value]}
        /\ saveDebouncers' = [saveDebouncers EXCEPT ![page] = saves + 1]
        /\ lastSaved' = [lastSaved EXCEPT ![page][fieldName] = value]
    /\ saves' = saves + 1
    /\ UNCHANGED <<drafts, writes>>
    /\ UNCHANGED <<converterVars, loaderVars, unit, toolbarVars, editorVars, guardVars>>

\* a timer runs out: its callback starts and loads the page's draft
TimerFires ==
    /\ \E t \in timers :
        /\ timers' = timers \ {t}
        /\ writes' = writes \cup {[id |-> t.id, page |-> t.page, fieldName |-> t.fieldName,
                                    value |-> t.value, fields |-> drafts[t.page]]}
    /\ UNCHANGED <<drafts, saveDebouncers, lastSaved, saves>>
    /\ UNCHANGED <<converterVars, loaderVars, unit, toolbarVars, editorVars, guardVars>>

\* the callback goes on: it sets its field in the fields it loaded, stores
\* the draft, and deletes the page's entry of the map
WriteLands ==
    /\ \E w \in writes :
        /\ drafts' = [drafts EXCEPT ![w.page] = [w.fields EXCEPT ![w.fieldName] = w.value]]
        /\ saveDebouncers' = [saveDebouncers EXCEPT ![w.page] = 0]
        /\ writes' = writes \ {w}
    /\ UNCHANGED <<timers, lastSaved, saves>>
    /\ UNCHANGED <<converterVars, loaderVars, unit, toolbarVars, editorVars, guardVars>>

\* the click on the publish button: publishAll starts and awaits getAllDrafts
PublishClick ==
    /\ ~button.disabled
    /\ publish.pc = "idle"
    /\ publishes < MaxPublishes
    /\ publishes' = publishes + 1
    /\ button' = [disabled |-> TRUE, textContent |-> "Publishing"]
    /\ publish' = [publish EXCEPT !.pc = "reading", !.originalText = button.textContent]
    /\ UNCHANGED restores
    /\ UNCHANGED <<converterVars, loaderVars, unit, draftVars, editorVars, guardVars>>

\* getAllDrafts answers: without drafts publishAll returns, otherwise it
\* posts the drafts to the publish endpoint
PublishRead ==
    /\ publish.pc = "reading"
    /\ publish' = IF Drafted(drafts) = {}
                  THEN [publish EXCEPT !.pc = "idle"]
                  ELSE [publish EXCEPT !.pc = "sent", !.sent = drafts]
    /\ UNCHANGED <<button, restores, publishes>>
    /\ UNCHANGED <<converterVars, loaderVars, unit, draftVars, editorVars, guardVars>>

\* the request settles.  The endpoint reports each page it was sent as
\* successful or failed; publishAll clears the drafts of the successful
\* ones, sets the label, and arms the timer that restores the button
PublishResponse ==
    /\ publish.pc = "sent"
    /\ \E ok \in BOOLEAN, successful \in SUBSET Drafted(publish.sent) :
        IF ok
        THEN /\ drafts' = [p \in DraftPages |->
                              IF p \in successful THEN NoFields ELSE drafts[p]]
             /\ lastSaved' = [p \in DraftPages |->
                              IF p \in successful THEN NoFields ELSE lastSaved[p]]
             /\ button' = [button EXCEPT !.textContent =
                              IF successful = Drafted(publish.sent)
                              THEN "Published" ELSE "Partial"]
             /\ publish' = [publish EXCEPT !.pc = "idle", !.successful = successful]
        ELSE /\ successful = {}
             /\ button' = [button EXCEPT !.textContent = "Failed"]
             /\ publish' = [publish EXCEPT !.pc = "idle", !.successful = {}]
             /\ UNCHANGED <<drafts, lastSaved>>
    /\ restores' = restores \cup {publish.originalText}
    /\ UNCHANGED <<saveDebouncers, timers, writes, saves, publishes>>
    /\ UNCHANGED <<converterVars, loaderVars, unit, editorVars, guardVars>>

\* the timer of publishAll runs out: label and state of the button are restored
RestoreButton ==
    /\ \E originalText \in restores :
        /\ button' = [disabled |-> FALSE, textContent |-> originalText]
        /\ restores' = restores \ {originalText}
    /\ UNCHANGED <<publish, publishes>>
    /\ UNCHANGED <<converterVars, loaderVars, unit, draftVars, editorVars, guardVars>>

NextToolbar ==
    \/ SaveDraft
    \/ TimerFires
    \/ WriteLands
    \/ PublishClick
    \/ PublishRead
    \/ PublishResponse
    \/ RestoreButton

\* the overlay on a built project
InitBuilt ==
    /\ InitAtRest
    /\ publicManifest = <<BuiltManifest>>

SpecToolbar == InitBuilt /\ [][NextToolbar]_vars

\* timers run out, requests settle, callbacks go on
SpecToolbarFair ==
    /\ SpecToolbar
    /\ WF_vars(TimerFires) /\ WF_vars(WriteLands) /\ WF_vars(PublishRead)
    /\ WF_vars(PublishResponse) /\ WF_vars(RestoreButton)

(***************************************************************************)
(* The editor of the overlay (initEditor) with its draft storage.  Every   *)
(* page has the two fields, each shown by one element of the document.    *)
(***************************************************************************)
\* text edits the user makes and save() calls that send a request
MaxEdits == 2
MaxRequests == 1

\* findEditableElements: the elements as the document shows them
findEditableElements(document) ==
    [f \in DraftFields |->
        [originalValue |-> document[f], currentValue |-> document[f], isDirty |-> FALSE]]

\* applyDraft(fields) on the elements
applyDraft(elements, fields) ==
    [f \in DOMAIN elements |->
        IF fields[f] # ""
        THEN [elements[f] EXCEPT !.currentValue = fields[f],
                                 !.isDirty = fields[f] # elements[f].originalValue]
        ELSE elements[f]]

\* save() that leaves the elements as they are after the response
markSavedNone(elements) == elements

\* save(), after the response: every dirty element becomes the saved one
markSaved(elements) ==
    [f \in DOMAIN elements |->
        IF elements[f].isDirty
        THEN [elements[f] EXCEPT !.originalValue = elements[f].currentValue,
                                 !.isDirty = FALSE]
        ELSE elements[f]]

\* enable(): up to the await of loadDraft
Enable ==
    /\ ~isEnabled
    /\ isEnabled' = TRUE
    /\ editableElements' = findEditableElements(dom)
    /\ loads' = loads \cup {currentPage}
    /\ UNCHANGED <<currentPage, dom, attached, debouncers, request, edits, requests>>
    /\ UNCHANGED <<converterVars, loaderVars, unit, draftVars, toolbarVars, guardVars>>

\* enable(), after the await: the draft is applied, the listeners are attached
EnableLoaded ==
    /\ \E page \in loads :
        /\ loads' = loads \ {page}
        /\ editableElements' = applyDraft(editableElements, drafts[page])
        /\ dom' = [f \in DraftFields |->
                      IF drafts[page][f] # "" THEN drafts[page][f] ELSE dom[f]]
    /\ attached' = TRUE
    /\ UNCHANGED <<isEnabled, currentPage, debouncers, request, edits, requests>>
    /\ UNCHANGED <<converterVars, loaderVars, unit, draftVars, toolbarVars, guardVars>>

\* disable()
Disable ==
    /\ isEnabled
    /\ isEnabled' = FALSE
    /\ attached' = FALSE
    /\ UNCHANGED <<currentPage, dom, editableElements, loads, debouncers, request, edits,
                   requests>>
    /\ UNCHANGED <<converterVars, loaderVars, unit, draftVars, toolbarVars, guardVars>>

\* setPage(pageName): disable() when enabled, the page is set, and enable()
\* when isEnabled holds then
SetPage ==
    /\ \E pageName \in DraftPages :
        LET disabled == IF isEnabled THEN FALSE ELSE isEnabled
        IN  /\ currentPage' = pageName
            /\ IF disabled
               THEN /\ isEnabled' = TRUE
                    /\ attached' = attached
                    /\ editableElements' = findEditableElements(dom)
                    /\ loads' = loads \cup {pageName}
               ELSE /\ isEnabled' = disabled
                    /\ attached' = IF isEnabled THEN FALSE ELSE attached
                    /\ UNCHANGED <<editableElements, loads>>
    /\ UNCHANGED <<dom, debouncers, request, edits, requests>>
    /\ UNCHANGED <<converterVars, loaderVars, unit, draftVars, toolbarVars, guardVars>>

\* a text edit, from the click to the blur: the element takes the text, and
\* saveToDraft sets the field's timer when the element is dirty
Edit ==
    /\ attached
    /\ edits < MaxEdits
    /\ edits' = edits + 1
    /\ \E f \in DOMAIN editableElements, text \in Texts :
        LET dirty == text # editableElements[f].originalValue
        IN  /\ dom' = [dom EXCEPT ![f] = text]
            /\ editableElements' = [editableElements EXCEPT ![f].currentValue = text,
                                                            ![f].isDirty = dirty]
            /\ debouncers' = IF dirty THEN [debouncers EXCEPT ![f] = text] ELSE debouncers
    /\ UNCHANGED <<isEnabled, currentPage, attached, loads, request, requests>>
    /\ UNCHANGED <<converterVars, loaderVars, unit, draftVars, toolbarVars, guardVars>>

\* a timer of saveToDraft runs out: draftStorage.saveDraft(currentPage,
\* fieldName, value, 0) and debouncers.delete(fieldName)
DebounceFires ==
    /\ \E fieldName \in DraftFields :
        /\ debouncers[fieldName] # ""
        /\ debouncers' = [debouncers EXCEPT ![fieldName] = ""]
        /\ timers' = {t \in timers : t.id # saveDebouncers[currentPage]}
                        \cup {[id |-> saves + 1, page |-> currentPage,
                                fieldName |-> fieldName, value |-> debouncers[fieldName]]}
        /\ saveDebouncers' = [saveDebouncers EXCEPT ![currentPage] = saves + 1]
        /\ lastSaved' = [lastSaved EXCEPT ![currentPage][fieldName] = debouncers[fieldName]]
    /\ saves' = saves + 1
    /\ UNCHANGED <<drafts, writes>>
    /\ UNCHANGED <<isEnabled, currentPage, dom, editableElements, attached, loads, request,
                   edits, requests>>
    /\ UNCHANGED <<converterVars, loaderVars, unit, toolbarVars, guardVars>>

\* save(): the dirty elements are collected; without any, save returns,
\* otherwise their values are posted
Save ==
    /\ request.pc = "idle"
    /\ requests < MaxRequests
    /\ LET changes == [f \in DraftFields |->
                          IF f \in DOMAIN editableElements /\ editableElements[f].isDirty
                          THEN editableElements[f].currentValue ELSE ""]
       IN  IF changes = NoFields
           THEN UNCHANGED <<request, requests>>
           ELSE /\ request' = [pc |-> "sent", changes |-> changes, ok |-> FALSE]
                /\ requests' = requests + 1
    /\ UNCHANGED <<isEnabled, currentPage, dom, editableElements, attached, loads, debouncers,
                   edits>>
    /\ UNCHANGED <<converterVars, loaderVars, unit, draftVars, toolbarVars, guardVars>>

\* the request settles: on success the dirty elements are marked and the
\* draft of the current page is cleared; on failure save throws
SaveSettles ==
    /\ request.pc = "sent"
    /\ \E ok \in BOOLEAN :
        /\ request' = [request EXCEPT !.pc = "idle", !.ok = ok]
        /\ IF ok
           THEN /\ editableElements' = markSaved(editableElements)
                /\ drafts' = [drafts EXCEPT ![currentPage] = NoFields]
                /\ lastSaved' = [lastSaved EXCEPT ![currentPage] = NoFields]
           ELSE UNCHANGED <<editableElements, drafts, lastSaved>>
    /\ UNCHANGED <<saveDebouncers, timers, writes, saves>>
    /\ UNCHANGED <<isEnabled, currentPage, dom, attached, loads, debouncers, edits, requests>>
    /\ UNCHANGED <<converterVars, loaderVars, unit, toolbarVars, guardVars>>

NextEditor ==
    \/ Enable
    \/ EnableLoaded
    \/ Disable
    \/ SetPage
    \/ Edit
    \/ DebounceFires
    \/ TimerFires
    \/ WriteLands
    \/ Save
    \/ SaveSettles

SpecEditor == InitBuilt /\ [][NextEditor]_vars

(***************************************************************************)
(* The NavigationGuard of the overlay: navigation-guard.ts and the class   *)
(* of the same name in url-state.ts have the same enable, disable and      *)
(* allowNavigation.                                                        *)
(***************************************************************************)
\* calls made on one guard
MaxGuardCalls == 5

\* enable() on the guard g
guardEnable(g) ==
    IF g.enabled THEN g
    ELSE [enabled |-> TRUE, clickHandler |-> TRUE, handlers |-> g.handlers + 1]

\* disable() on the guard g
guardDisable(g) ==
    IF ~g.enabled THEN g
    ELSE [enabled |-> FALSE, clickHandler |-> FALSE,
          handlers |-> IF g.clickHandler THEN g.handlers - 1 ELSE g.handlers]

GuardEnable ==
    /\ guardCalls < MaxGuardCalls
    /\ guardCalls' = guardCalls + 1
    /\ guard' = guardEnable(guard)
    /\ navigations' = {[n EXCEPT !.called = TRUE] : n \in navigations}
    /\ UNCHANGED lastNavigation
    /\ UNCHANGED <<converterVars, loaderVars, unit, draftVars, toolbarVars, editorVars>>

GuardDisable ==
    /\ guardCalls < MaxGuardCalls
    /\ guardCalls' = guardCalls + 1
    /\ guard' = guardDisable(guard)
    /\ navigations' = {[n EXCEPT !.called = TRUE] : n \in navigations}
    /\ UNCHANGED lastNavigation
    /\ UNCHANGED <<converterVars, loaderVars, unit, draftVars, toolbarVars, editorVars>>

\* allowNavigation(callback), up to the await of the callback
AllowNavigation ==
    /\ guardCalls < MaxGuardCalls
    /\ guardCalls' = guardCalls + 1
    /\ navigations' = navigations \cup {[id |-> guardCalls + 1, wasEnabled |-> guard.enabled,
                                         called |-> FALSE]}
    /\ guard' = IF guard.enabled THEN guardDisable(guard) ELSE guard
    /\ UNCHANGED lastNavigation
    /\ UNCHANGED <<converterVars, loaderVars, unit, draftVars, toolbarVars, editorVars>>

\* the callback returns or throws: the finally block runs
NavigationSettles ==
    /\ \E n \in navigations, threw \in BOOLEAN :
        /\ navigations' = navigations \ {n}
        /\ guard' = IF n.wasEnabled THEN guardEnable(guard) ELSE guard
        /\ lastNavigation' = [id |-> n.id, wasEnabled |-> n.wasEnabled, called |-> n.called,
                              enabled |-> guard'.enabled, threw |-> threw]
    /\ UNCHANGED guardCalls
    /\ UNCHANGED <<converterVars, loaderVars, unit, draftVars, toolbarVars, editorVars>>

NextGuard ==
    \/ GuardEnable
    \/ GuardDisable
    \/ AllowNavigation
    \/ NavigationSettles

SpecGuard == InitBuilt /\ [][NextGuard]_vars

(***************************************************************************)
(* Vocabulary of the properties                                            *)
(***************************************************************************)
Range(f) == {f[i] : i \in 1..Len(f)}

Done == pc = "done"

\* the pages of the written manifest, as (name, entry) pairs
ManifestPages == IF manifest = <<>> THEN {} ELSE Range(manifest[1].pages)

FieldNames(page) == KeySet(page.fields)
CollectionNames(page) == KeySet(page.collections)
ItemFieldNames(page) ==
    UNION {KeySet(c[2].fields) : c \in Range(page.collections)}

\* every binding expression the template at this path holds
BindingsOf(t) ==
    UNION {{t[i].bind.vfor, t[i].bind.bsrc, t[i].bind.vhtml, t[i].bind.bto,
            t[i].bind.interp} : i \in {n \in Nodes(t) : t[n].alive}} \ {<<>>}

TemplateOf(pageName) == Get(pagesDir, pageName \o ParLit.dot_vue)

Rewritten(pageName) ==
    /\ HasKey(pagesDir, pageName \o ParLit.dot_vue)
    /\ TemplateOf(pageName).strapi

\* C1 (as claimed): once a run is complete, every identifier in the rewritten
\* templates, the backend schemas and the seed data is a manifest identifier
\* used verbatim: templates bind only content.<manifest name> and
\* item.<collection field>; a page's schema has exactly the page's field
\* names as attributes; a collection's schema is named by the manifest
\* identifier and has exactly its item field names as attributes; seed data
\* is keyed by page/collection identifiers and their field names.
C1_IdentifiersVerbatim ==
    Done =>
      \A e \in ManifestPages :
        LET pageName == e[1]
            page == e[2]
        IN  /\ Rewritten(pageName) =>
                 \A b \in BindingsOf(TemplateOf(pageName).tree) :
                    \/ b[1] = "content" /\ b[2] \in FieldNames(page) \cup CollectionNames(page)
                    \/ b[1] = "item" /\ b[2] \in ItemFieldNames(page)
            /\ Len(page.fields) > 0 =>
                 /\ HasKey(schemas[1], pageName)
                 /\ Keys(Get(schemas[1], pageName).attributes) = Keys(page.fields)
            /\ \A c \in Range(page.collections) :
                 /\ HasKey(schemas[1], c[1])
                 /\ Get(schemas[1], c[1]).collectionName = c[1]
                 /\ Get(schemas[1], c[1]).info.pluralName = c[1]
                 /\ Keys(Get(schemas[1], c[1]).attributes) = Keys(c[2].fields)
            /\ HasKey(seedData[1], pageName) =>
                 KeySet(Get(seedData[1], pageName)) \subseteq FieldNames(page)
            /\ \A c \in Range(page.collections) :
                 HasKey(seedData[1], c[1]) =>
                    \A item \in Range(Get(seedData[1], c[1])) :
                       KeySet(item) \subseteq KeySet(c[2].fields)

pageNameOfVue(path) == ReplaceFirst(path, ParLit.dot_vue, <<>>)

\* C2: the rewrite is idempotent.  A template that has been rewritten is
\* never changed by a later application, and for every template of the
\* project and the written manifest, rewrite(rewrite(t)) = rewrite(t).
C2_RewriteIdempotent ==
    [][ \A path \in KeySet(pagesDir) :
           /\ Get(pagesDir, path).strapi => Get(pagesDir', path) = Get(pagesDir, path)
           /\ manifest # <<>> =>
                LET once == transformVueToReactive(Get(pagesDir, path),
                                                   pageNameOfVue(path), manifest[1])
                IN  transformVueToReactive(once, pageNameOfVue(path), manifest[1]) = once
      ]_vars

\* the second run has gone over a template that the first run had bound
C2_Witness ==
    /\ runs = 2
    /\ thrown = <<>>
    /\ \E path \in KeySet(pagesDir) :
          /\ path \notin Range(rtodo)
          /\ Get(pagesDir, path).strapi
          /\ BindingsOf(Get(pagesDir, path).tree) # {}

\* the original tree of a manifest page
OriginalOf(pageName) == Get(htmlContentMap, pageName)

\* C3 (as claimed): round trip.  Once content has been extracted, every field
\* and collection selector of the manifest resolves in the page's original
\* tree, every field has a non-empty extracted value, and every collection
\* has an extracted item with a non-empty value.
C3_RoundTrip ==
    extracted # <<>> =>
      \A e \in ManifestPages :
        LET pageName == e[1]
            page == e[2]
            content == Get(extracted[1].pages, pageName)
        IN  /\ HasKey(extracted[1].pages, pageName)
            /\ \A f \in Range(page.fields) :
                 /\ Len(Query(OriginalOf(pageName), f[2].selector)) > 0
                 /\ HasKey(content.fields, f[1])
                 /\ Len(Get(content.fields, f[1])) > 0
            /\ \A c \in Range(page.collections) :
                 /\ Len(Query(OriginalOf(pageName), c[2].selector)) > 0
                 /\ HasKey(content.collections, c[1])
                 /\ \E item \in Range(Get(content.collections, c[1])) :
                       \E v \in Range(item) : Len(v[2]) > 0

\* the templates analyzeVuePages reads while it runs
UnboundTrees ==
    IF pc = "analyze"
    THEN {f[2].tree : f \in {g \in Range(pagesDir) : g[2].template}} ELSE {}

\* the elements whose content pass 2 registers as an individual field
RegisteredElements(t) == {r.el : r \in Range(fieldRegistrations(t))}

\* the members of the groups that pass 1 processes as collections
PromotedMembers(t) == UNION {Range(g[2]) : g \in Range(promotedGroups(t))}

\* C4: when a group is promoted, the descendants of its first member (and
\* of every other member) are excluded from individual field detection: no
\* member, no descendant of a member, and so no element a collection field
\* selector finds inside a member, is registered as an individual field.
C4_OwnedNotRegistered ==
    \A t \in UnboundTrees :
       /\ \A m \in PromotedMembers(t) :
             ({m} \cup Descendants(t, m)) \cap RegisteredElements(t) = {}
       /\ \A c \in Range(detectEditableFields(t).collections) :
             \A m \in Range(Query(t, c[2].selector)) \cap PromotedMembers(t) :
                \A f \in Range(c[2].fields) :
                   Range(Find(t, m, f[2])) \cap RegisteredElements(t) = {}

\* a page with a collection, whose item holds a heading that would qualify
\* as a field, and with an individual field registered outside the items
C4_Witness ==
    \E t \in UnboundTrees :
       /\ detectEditableFields(t).collections # <<>>
       /\ RegisteredElements(t) # {}
       /\ \E m \in PromotedMembers(t) : \E d \in Descendants(t, m) :
             /\ IsHeading(t[d])
             /\ headingRegistration(t, {}, d, 0) # <<>>

\* a group none of whose members lies inside a member of a promoted group
TopLevelGroup(t, g) ==
    \A m \in Range(g[2]) : \A o \in PromotedMembers(t) : ~IsAncestor(t, o, m)

\* the members of g are siblings that each hold an image, a heading and a
\* paragraph of more than 20 characters
CardsWithContent(t, g) ==
    /\ \A m, n \in Range(g[2]) : t[m].parent = t[n].parent
    /\ \A m \in Range(g[2]) :
          /\ \E d \in Descendants(t, m) : t[d].tag = Tag.img
          /\ \E d \in Descendants(t, m) : IsHeading(t[d])
          /\ \E d \in Descendants(t, m) :
                t[d].tag = Tag.p /\ Len(TrimmedText(t, d)) > ParagraphMinLength

\* C5 (as claimed): every top-level group of two or more elements sharing a
\* card/item/post/feature primary class is promoted to a collection named by
\* the plural of the token, a group of one never is, and a group of sibling
\* cards that each hold an image, a heading and a long paragraph yields a
\* collection with image, title and description fields and no individual
\* field for their sub-elements.
C5_GroupsPromoted ==
    \A t \in UnboundTrees :
       LET detection == detectEditableFields(t)
       IN  \A g \in Range(potentialCollections(t)) :
              TopLevelGroup(t, g) =>
                 /\ Len(g[2]) >= 2 =>
                       HasKey(detection.collections, collectionNameOf(g[1]))
                 /\ Len(g[2]) = 1 =>
                       ~HasKey(detection.collections, collectionNameOf(g[1]))
                 /\ Len(g[2]) >= 2 /\ CardsWithContent(t, g) =>
                       /\ HasKey(detection.collections, collectionNameOf(g[1]))
                       /\ KeySet(Get(detection.collections,
                                     collectionNameOf(g[1])).fields)
                             = {DetLit.image, DetLit.title, DetLit.description}
                       /\ \A m \in Range(g[2]) :
                             Descendants(t, m) \cap RegisteredElements(t) = {}

\* the Vue file convertWebflowExport wrote for a page, before any rewrite
WrittenFor(pageName) ==
    htmlToVueComponent(transformForNuxt(parseHTML(OriginalOf(pageName))))

\* the template as the k-th collection of the page finds it
BeforeCollection(pageName, page, k) ==
    transformCollections(WrittenFor(pageName).tree, SubSeq(page.collections, 1, k - 1))

\* a page field whose selector matches an ancestor of el and is written with
\* empty(): the field pass then clears everything below that ancestor
ClearedByFieldPass(t, page, el) ==
    \E f \in Range(page.fields) :
       /\ f[2].type # "image"
       /\ \E a \in Range(Query(t, f[2].selector)) : IsAncestor(t, a, el)

ExtractableFields(t, m, collection) ==
    {f[1] : f \in {g \in Range(collection.fields) : Len(Find(t, m, g[2])) > 0}}

\* the instances of a collection that hold at least one of its fields
ExtractableInstances(t, collection) ==
    SelectSeq(Query(t, collection.selector),
              LAMBDA m : ExtractableFields(t, m, collection) # {})

\* the items extracted for a collection of a page (none when the key is absent)
ExtractedItems(pageName, name) ==
    LET content == Get(extracted[1].pages, pageName)
    IN  IF HasKey(content.collections, name)
        THEN Get(content.collections, name) ELSE <<>>

\* C7: for each collection of an extracted page, the item records are, in
\* document order, exactly the elements of the original tree that match the
\* container selector and hold at least one field of the collection: one
\* record each, with the fields found in that element and the text read
\* from it; instances holding no field give no record.
C7_OneRecordPerInstance ==
    extracted # <<>> =>
      \A e \in {x \in ManifestPages : HasKey(extracted[1].pages, x[1])} :
        \A c \in Range(e[2].collections) :
          LET t == OriginalOf(e[1])
              instances == ExtractableInstances(t, c[2])
              items == ExtractedItems(e[1], c[1])
          IN  /\ Len(items) = Len(instances)
              /\ \A j \in 1..Len(instances) :
                    /\ KeySet(items[j]) = ExtractableFields(t, instances[j], c[2])
                    /\ \A f \in Range(c[2].fields) :
                          (HasKey(items[j], f[1]) /\ f[1] \in {TrLit.title, TrLit.description})
                             => Get(items[j], f[1])
                                   = TrimmedText(t, Find(t, instances[j], f[2])[1])

\* a collection with three matching instances, one of which holds no field,
\* has been extracted into two records
C7_Witness ==
    /\ extracted # <<>>
    /\ \E e \in {x \in ManifestPages : HasKey(extracted[1].pages, x[1])} :
          \E c \in Range(e[2].collections) :
             /\ Len(Query(OriginalOf(e[1]), c[2].selector)) = 3
             /\ Len(ExtractedItems(e[1], c[1])) = 2

Terminated == pc \in {"done", "failed"}

\* the processing of this exported file threw at some step
Threw(htmlFile) ==
    \/ htmlFile \in Range(thrown)
    \/ vuePathOf(htmlFile) \in Range(thrown)

\* C8 (as claimed): when the conversion has ended, every page whose own
\* processing did not throw has its template, and (for the pages analysed,
\* those directly under pages/) its manifest entry and its extracted
\* content, whatever happened to the other pages of the batch.
C8_FailureIsolated ==
    Terminated =>
      \A i \in 1..Len(htmlFiles) :
        ~Threw(htmlFiles[i]) =>
          /\ HasKey(pagesDir, vuePathOf(htmlFiles[i]))
          /\ htmlFiles[i] \in TopLevelFiles =>
                /\ manifest # <<>>
                /\ HasKey(manifest[1].pages, pageNameOf(htmlFiles[i]))
                /\ extracted # <<>>
                /\ HasKey(extracted[1].pages, pageNameOf(htmlFiles[i]))

\* C10: in every manifest written, each page entry is fully populated: it
\* has the fields map and the collections map the analysis gave for the page
\* and a meta with a non-empty route.  A page without such an entry has none
\* at all: every key of the manifest is a page that was analysed, and a run
\* in which the analysis of a page throws writes no manifest.
C10_EntryFullOrAbsent ==
    manifest # <<>> =>
      /\ \A e \in ManifestPages :
            /\ DOMAIN e[2] = {"fields", "collections", "meta"}
            /\ DOMAIN e[2].meta = {"route"}
            /\ Len(e[2].meta.route) > 0
            /\ HasKey(analyzed, e[1])
            /\ e[2].fields = Get(analyzed, e[1]).fields
            /\ e[2].collections = Get(analyzed, e[1]).collections
            /\ HasKey(pagesDir, e[1] \o ParLit.dot_vue)
            /\ TemplateOf(e[1]).template
      /\ \A f \in Range(thrown) : EndsWith(f, ParLit.dot_vue) => Done

\* a manifest has been written that holds an entry with empty fields and
\* collections maps next to an entry with fields, and lacks the nested page
\* and the component without template
C10_Witness ==
    /\ manifest # <<>>
    /\ HasKey(pagesDir, staleVue)
    /\ ~HasKey(manifest[1].pages, pageNameOfVue(staleVue))
    /\ \E e \in ManifestPages : e[2].fields = <<>> /\ e[2].collections = <<>>
    /\ \E e \in ManifestPages : e[2].fields # <<>>
    /\ \E i \in 1..Len(htmlFiles) :
          ~HasKey(manifest[1].pages, pageNameOf(htmlFiles[i]))

\* C9: load-then-read lifecycle.  An accessor call returns the
\* manifest-not-loaded error exactly when no load has succeeded since the
\* store was created or last cleared (phase fresh, failed or cleared), and
\* never after a successful load until clearCache; the store holds a
\* document exactly in phase loaded; and an accessor call changes neither
\* the cached document nor the pending loads.
C9_LoadThenRead ==
    [][ /\ lastCall'.name # "none" =>
              ((lastCall'.result.error = "ManifestNotLoaded")
                  <=> (lastCall'.phase # "loaded"))
        /\ lastCall'.result.error \in {"none", "ManifestNotLoaded"}
        /\ (cached' # <<>>) <=> (phase' = "loaded")
        /\ lastCall'.tick # lastCall.tick =>
              (cached' = cached /\ inflight' = inflight /\ phase' = phase)
      ]_vars

\* an accessor has failed after a clearCache that followed a successful
\* load, while another load was pending
C9_Witness ==
    /\ lastCall.name = "getPageFromRoute"
    /\ lastCall.phase = "cleared"
    /\ lastCall.result.error = "ManifestNotLoaded"
    /\ inflight > 0
    /\ phase = "loaded"

(***************************************************************************)
(* Single calls: vocabulary                                                *)
(***************************************************************************)
Returned(op) == unit.op = op /\ unit.output # <<>>

\* the template the detector is given in Detect
UnitTemplate == transformForNuxt(parseHTML(unit.input))

\* the registrations of the field pass that carry the name of the i-th
LastOf(regs, i) ==
    CHOOSE k \in i..Len(regs) :
        /\ regs[k].name = regs[i].name
        /\ \A j \in (k + 1)..Len(regs) : regs[j].name # regs[i].name

\* C11: when two distinct elements of a page normalize to the same field
\* identifier, the detected fields hold exactly one entry under it, the
\* entry is the one of the element detected last, and the result flags the
\* collision as ambiguous (it carries more than the plain selector, type
\* and editable of an entry, or more than the fields and collections).
C11_CollisionLastWinsFlagged ==
    Returned("detectEditableFields") =>
        LET regs == fieldRegistrations(UnitTemplate)
            out == unit.output[1]
        IN  \A i, j \in 1..Len(regs) :
                (i < j /\ regs[i].name = regs[j].name /\ regs[i].el # regs[j].el) =>
                    /\ Cardinality({k \in 1..Len(out.fields) :
                                       out.fields[k][1] = regs[i].name}) = 1
                    /\ Get(out.fields, regs[i].name) = regs[LastOf(regs, i)].field
                    /\ \/ DOMAIN out # {"fields", "collections"}
                       \/ DOMAIN Get(out.fields, regs[i].name)
                             # {"selector", "type", "editable"}

\* C12: every collection name the detector emits is the plural of the class
\* token of its group under the suffix rules (consonant + "y" -> "ies";
\* s, x, z, ch, sh -> "es"; otherwise "s").
C12_CollectionNamesPlural ==
    Returned("detectEditableFields") =>
        LET groups == promotedGroups(UnitTemplate)
        IN  KeySet(unit.output[1].collections)
                \subseteq {pluralize(groups[g][1]) : g \in 1..Len(groups)}

\* the route the build is to give the page with identifier pageId
RouteFor(pageId) ==
    IF pageId = ParLit.index THEN ParLit.slash ELSE ParLit.slash \o pageId

\* C13: once the manifest is built, every page has the route "/" when its
\* identifier is "index" and "/" + identifier otherwise; every exported
\* file, nested ones included, appears with the route of its path without
\* ".html"; and no two pages have the same route.
C13_RoutesDerived ==
    manifest # <<>> =>
        LET pages == manifest[1].pages
        IN  /\ \A k \in 1..Len(pages) :
                  pages[k][2].meta.route = RouteFor(pages[k][1])
            /\ \A i \in 1..Len(htmlFiles) :
                  \E k \in 1..Len(pages) :
                      pages[k][2].meta.route
                          = RouteFor(ReplaceFirst(htmlFiles[i], ParLit.dot_html, <<>>))
            /\ \A k, l \in 1..Len(pages) :
                  k # l => pages[k][2].meta.route # pages[l][2].meta.route

\* C14: an internal navigation reference (not http(s), fragment, mailto or
\* tel) is rewritten to a route that begins with "/", has no ".html" suffix
\* and no "." or ".." segment, with an index reference collapsed so that no
\* "index" segment ends the route; an external or fragment reference is
\* left as it was.
C14_LinksCanonical ==
    (Returned("transformForNuxt:a") /\ Len(unit.input) > 0) =>
        LET href == unit.input
            n == unit.output[1][1]
            external == \E pre \in {ParLit.http_url, ParLit.https_url, ParLit.mailto,
                                    ParLit.tel, ParLit.hash} : StartsWith(href, pre)
            segs == Split(n.to, "/")
        IN  IF external
            THEN n.href = href /\ n.to = <<>>
            ELSE /\ n.href = <<>>
                 /\ StartsWith(n.to, ParLit.slash)
                 /\ ~EndsWith(n.to, ParLit.dot_html)
                 /\ \A k \in 1..Len(segs) : segs[k] \notin {ParLit.dot, ParLit.dotdot}
                 /\ segs[Len(segs)] # ParLit.index

\* C15: after the rewrite an image has neither srcset nor sizes; a remote
\* source is unchanged; any other source lies under /assets/ with no ".."
\* segment and no doubled separator left; and normalizing the rewritten
\* source again changes nothing.
C15_AssetsUnderRoot ==
    Returned("transformForNuxt:img") =>
        LET src == unit.input[1]
            n == unit.output[1][1]
            remote == StartsWith(src, ParLit.http_url) \/ StartsWith(src, ParLit.https_url)
            segs == Split(n.src, "/")
        IN  /\ ~n.srcset /\ ~n.sizes
            /\ remote => n.src = src
            /\ (~remote /\ Len(src) > 0) =>
                  /\ StartsWith(n.src, ParLit.assets)
                  /\ \A k \in 1..Len(segs) : segs[k] # ParLit.dotdot
                  /\ ~Includes(n.src, <<"/", "/">>)
            /\ normalizeAssetPath(n.src) = n.src

\* C16: an image that lies, at any depth, inside an element whose class
\* contains "nav" or "logo" is not registered as a field of the page.
C16_DecorativeExcluded ==
    Returned("detectEditableFields") =>
        LET t == UnitTemplate
            regs == fieldRegistrations(t)
            decorative(i) ==
                /\ t[i].tag = Tag.img
                /\ \E a \in Nodes(t) :
                      /\ IsAncestor(t, a, i)
                      /\ \/ ClassAttrContains(t[a], <<"n", "a", "v">>)
                         \/ ClassAttrContains(t[a], <<"l", "o", "g", "o">>)
        IN  \A k \in 1..Len(regs) :
                decorative(regs[k].el) => ~HasKey(unit.output[1].fields, regs[k].name)

\* C17: in the field pass a paragraph that no collection owns is registered
\* if and only if its trimmed text is longer than 20 characters, with type
\* rich when it has an inline formatting or link element inside it and
\* plain otherwise.
C17_ParagraphRule ==
    Returned("detectEditableFields") =>
        LET t == UnitTemplate
            regs == fieldRegistrations(t)
            formatted(el) ==
                \E i \in Descendants(t, el) :
                    t[i].tag \in {Tag.strong, Tag.em, Tag.b, Tag.i, Tag.a, Tag.nuxt_link}
        IN  \A el \in Nodes(t) \ collectionElements(t) :
                t[el].tag = Tag.p =>
                    /\ (\E k \in 1..Len(regs) : regs[k].el = el)
                          <=> Len(TrimmedText(t, el)) > ParagraphMinLength
                    /\ \A k \in 1..Len(regs) :
                          regs[k].el = el =>
                              regs[k].field.type
                                  = IF formatted(el) THEN "rich" ELSE "plain"

\* C18: no entry of the compiled schema set has an empty attribute map: a
\* page without fields yields no single-type entry and a collection
\* without fields yields no collection-type entry.
C18_NoEmptySchema ==
    Returned("manifestToSchemas") =>
        LET out == unit.output[1]
            pages == unit.input.pages
        IN  /\ \A k \in 1..Len(out) : Len(out[k][2].attributes) > 0
            /\ \A p \in 1..Len(pages) :
                  /\ Len(pages[p][2].fields) = 0 => ~HasKey(out, pages[p][1])
                  /\ \A c \in 1..Len(pages[p][2].collections) :
                        Len(pages[p][2].collections[c][2].fields) = 0
                            => ~HasKey(out, pages[p][2].collections[c][1])

\* C19: every page field's attribute type is given by the fixed table
\* (plain -> string, rich and html -> richtext, image -> media,
\* email -> email, phone and link -> string), and the attribute type of a
\* collection item field depends on what the manifest records for the
\* field, not on its name: two item fields with the same manifest value
\* get the same attribute type.
C19_TypeProjection ==
    Returned("manifestToSchemas") =>
        LET out == unit.output[1]
            pages == unit.input.pages
            table == [plain |-> "string", rich |-> "richtext", html |-> "richtext",
                      image |-> "media", email |-> "email", phone |-> "string",
                      link |-> "string"]
        IN  \A p \in 1..Len(pages) :
                /\ \A f \in 1..Len(pages[p][2].fields) :
                      Get(Get(out, pages[p][1]).attributes, pages[p][2].fields[f][1]).type
                          = table[pages[p][2].fields[f][2].type]
                /\ \A c \in 1..Len(pages[p][2].collections) :
                      LET fields == pages[p][2].collections[c][2].fields
                          attrs == Get(out, pages[p][2].collections[c][1]).attributes
                      IN  \A f, g \in 1..Len(fields) :
                              fields[f][2] = fields[g][2]
                                  => Get(attrs, fields[f][1]).type
                                        = Get(attrs, fields[g][1]).type

\* The values formatForStrapi treats as image paths: those of fields whose
\* name contains "image", paired with the value the call was given.
ImageValues ==
    LET inFields == unit.input.pages[1][2].fields
        inItems == unit.input.pages[1][2].collections[1][2]
        out == unit.output[1]
        isImage(name) == Includes(name, ExtLit.image)
    IN  {<<inFields[f][2], Get(Get(out, unit.input.pages[1][1]), inFields[f][1])>> :
            f \in {f \in 1..Len(inFields) : isImage(inFields[f][1])}}
        \cup
        UNION {{<<inItems[k][f][2],
                  Get(Get(out, unit.input.pages[1][2].collections[1][1])[k],
                      inItems[k][f][1])>> :
                    f \in {f \in 1..Len(inItems[k]) : isImage(inItems[k][f][1])}} :
               k \in 1..Len(inItems)}

\* C20: every non-empty image value of the seed data begins with "/"; a
\* value that already began with "/" is returned unchanged; and normalizing
\* a normalized value again changes nothing.
C20_ImagePathCanonical ==
    Returned("formatForStrapi") =>
        \A pair \in ImageValues :
            /\ Len(pair[2]) > 0 => StartsWith(pair[2], ExtLit.slash)
            /\ StartsWith(pair[1], ExtLit.slash) => pair[2] = pair[1]
            /\ normalizeImagePath(pair[2]) = pair[2]

\* a seed in which a relative path was rewritten and a root-relative one
\* was kept as it was
C20_Witness ==
    /\ Returned("formatForStrapi")
    /\ <<<<".", ".", "/", "i", "m", "a", "g", "e", "s", "/", "a", ".", "p", "n", "g">>,
         <<"/", "i", "m", "a", "g", "e", "s", "/", "a", ".", "p", "n", "g">>>> \in ImageValues
    /\ <<<<"/", "a", "s", "s", "e", "t", "s", "/", "i", "m", "a", "g", "e", "s", "/", "a", ".", "p", "n", "g">>,
         <<"/", "a", "s", "s", "e", "t", "s", "/", "i", "m", "a", "g", "e", "s", "/", "a", ".", "p", "n", "g">>>> \in ImageValues

\* C21: every field identifier and collection identifier the detector emits
\* is in normalized form: it holds no uppercase letter and no "-", so that
\* lowercasing it and replacing "-" by "_" again leaves it unchanged.
C21_IdentifiersNormalized ==
    Returned("detectEditableFields") =>
        \A name \in KeySet(unit.output[1].fields)
                        \cup KeySet(unit.output[1].collections) :
            /\ toLowerCase(name) = name
            /\ ~Includes(name, <<"-">>)
            /\ toLowerCase(ReplaceAll(name, <<"-">>, <<"_">>)) = name

FieldBindingsAt(t, i) ==
    {t[i].bind.bsrc, t[i].bind.vhtml, t[i].bind.bto, t[i].bind.interp} \ {<<>>}

\* C30: in a rewritten page, every field binding inside a repeated container
\* refers to item.<field> and none to content.<field>; and an element
\* carries the binding content.<field> only if the field was inferred from
\* that element.
C30_FieldPassKeepsTemplate ==
    Done =>
      \A e \in {x \in ManifestPages : Rewritten(x[1])} :
        LET t == TemplateOf(e[1]).tree
            regs == fieldRegistrations(WrittenFor(e[1]).tree)
        IN  /\ \A c \in {n \in Nodes(t) : t[n].bind.vfor # <<>>} :
                  \A d \in Descendants(t, c) \cap Nodes(t) :
                     \A b \in FieldBindingsAt(t, d) : b[1] = "item"
            /\ \A i \in Nodes(t) :
                  \A b \in FieldBindingsAt(t, i) :
                     b[1] = "content" =>
                        \E k \in 1..Len(regs) :
                           regs[k].name = b[2] /\ regs[k].el = i

\* C23: once every timer has run out and every delayed write has been
\* stored, the draft of each page holds, for every field that was saved
\* since the page's draft was last cleared, the value saved last.
C23_NoEditLost ==
    (timers = {} /\ writes = {}) =>
        \A p \in DraftPages, f \in DraftFields :
            lastSaved[p][f] # "" => drafts[p][f] = lastSaved[p][f]

\* C27: when the publish request settles, the draft of a page is deleted
\* only if the endpoint reported the page as successful, and of such a draft
\* only the values that were sent: a value saved after the request was sent
\* stays; every other draft, and every draft when the request fails, is
\* left as it was.
C27_PublishClearsPublished ==
    [][(publish.pc = "sent" /\ publish'.pc = "idle") =>
          \A p \in DraftPages, f \in DraftFields :
             drafts'[p][f] =
                IF p \in publish'.successful /\ drafts[p][f] = publish.sent[p][f]
                THEN "" ELSE drafts[p][f]]_vars

\* C28: whenever the publish button is disabled, it is eventually enabled
\* again with the label it had before the click.
C28_ButtonRestored ==
    button.disabled ~> (~button.disabled /\ button.textContent = "Publish")

\* C24: setPage preserves the edit mode: the editor is enabled after the
\* call if and only if it was enabled before it, and when it was enabled
\* its elements are collected again for the new page (an enable() is under
\* way or has attached the listeners).
C24_SetPageKeepsMode ==
    [][SetPage => /\ isEnabled' = isEnabled
                  /\ isEnabled => (currentPage' \in loads' \/ attached')]_vars

C26_LateEditStaysDirty ==
    [][(SaveSettles /\ request'.ok) =>
          \A f \in DOMAIN editableElements :
             (/\ editableElements[f].isDirty
              /\ editableElements[f].currentValue # request.changes[f]) =>
                 /\ editableElements'[f].isDirty
                 /\ drafts[currentPage][f] = editableElements[f].currentValue
                       => drafts'[currentPage][f] = drafts[currentPage][f]]_vars

\* C29: at most one click handler is registered on the document; one is
\* registered exactly when the guard is enabled; the guard is disabled
\* while the callback of an allowNavigation call runs; and an
\* allowNavigation call that has settled left the guard enabled exactly if
\* it was enabled before the call. The last two are stated for the calls
\* during whose callback neither enable() nor disable() was called.
C29_GuardHandler ==
    /\ guard.handlers <= 1
    /\ guard.handlers = 1 <=> guard.enabled
    /\ \A n \in navigations : ~n.called => ~guard.enabled
    /\ (lastNavigation.id # 0 /\ ~lastNavigation.called)
          => lastNavigation.enabled = lastNavigation.wasEnabled

\* one click handler on the document exactly when the guard is enabled
GuardHandlerRegistered ==
    /\ guard.handlers <= 1
    /\ guard.handlers = 1 <=> guard.enabled

====
